---- MODULE Spec2Model ----
(***************************************************************************)
(* Model of the channel router (EventRouter, SimpleLRU) and its dispatch   *)
(* pipeline.  A JavaScript string is modelled as the sequence of its       *)
(* characters; `undefined`/`null` of an optional value is the empty        *)
(* sequence and a present value v is <<v>> where the two must be compared. *)
(***************************************************************************)
EXTENDS Integers, Sequences, FiniteSets, TLC

\* ------------------------------------------------------------------------
\* Characters and words used by the bounded inputs
\* ------------------------------------------------------------------------
Letters == {"a", "b", "c", "d", "e", "f", "g", "h", "i", "j", "k", "l", "m",
            "n", "o", "p", "q", "r", "s", "t", "u", "v", "w", "x", "y", "z"}

Digits == {"0", "1", "2", "3", "4", "5", "6", "7", "8", "9"}

W_user == <<"u", "s", "e", "r">>

W_id == <<"i", "d">>

W_profile == <<"p", "r", "o", "f", "i", "l", "e">>

W_items == <<"i", "t", "e", "m", "s">>

W_number == <<"n", "u", "m", "b", "e", "r">>

W_boolean == <<"b", "o", "o", "l", "e", "a", "n">>

W_alpha == <<"a", "l", "p", "h", "a">>

W_alphanumeric == <<"a", "l", "p", "h", "a", "n", "u", "m", "e", "r", "i", "c">>

W_string == <<"s", "t", "r", "i", "n", "g">>

W_datetime == <<"d", "a", "t", "e", "t", "i", "m", "e">>

W_uuid == <<"u", "u", "i", "d">>

W_email == <<"e", "m", "a", "i", "l">>

W_slug == <<"s", "l", "u", "g">>

W_ipv4 == <<"i", "p", "v", "4">>

W_true == <<"t", "r", "u", "e">>

W_false == <<"f", "a", "l", "s", "e">>

W_42 == <<"4", "2">>

W_abc == <<"a", "b", "c">>

\* `undefined` of a handler, schema or controller reference
None == "undefined"

\* a map with no keys (an empty Map or {})
EmptyMap == [k \in {} |-> None]

\* Object.assign(a, b): b's keys override a's
ObjectAssign(a, b) ==
  [k \in DOMAIN a \cup DOMAIN b |-> IF k \in DOMAIN b THEN b[k] ELSE a[k]]

\* ------------------------------------------------------------------------
\* parseChannel
\* ------------------------------------------------------------------------
RECURSIVE SplitAt(_, _, _, _)
\* String.prototype.split on a one-character separator: cur is the piece
\* being read, i the next position
SplitAt(s, sep, i, cur) ==
  IF i > Len(s) THEN <<cur>>
  ELSE IF s[i] = sep THEN <<cur>> \o SplitAt(s, sep, i + 1, <<>>)
  ELSE SplitAt(s, sep, i + 1, Append(cur, s[i]))

parseChannel(delimiter, channel) ==
  SelectSeq(SplitAt(channel, delimiter, 1, <<>>), LAMBDA s : Len(s) > 0)

\* ------------------------------------------------------------------------
\* Pattern compiler
\* ------------------------------------------------------------------------
NameStart == Letters \cup {"_"}

NameChar == Letters \cup Digits \cup {"_"}

RECURSIVE RunEnd(_, _, _)
\* the position after the longest run of characters of class cls from i
RunEnd(s, i, cls) ==
  IF i <= Len(s) /\ s[i] \in cls THEN RunEnd(s, i + 1, cls) ELSE i

\* one exec of /\[([a-zA-Z_][a-zA-Z0-9_]*)(?::([a-zA-Z]+))?\]/ anchored at
\* position i: <<>> when it does not match there, else <<definition>>
ParamAt(segment, i) ==
  IF ~(i + 1 <= Len(segment) /\ segment[i] = "[" /\ segment[i + 1] \in NameStart)
  THEN <<>>
  ELSE LET e == RunEnd(segment, i + 2, NameChar)
           name == SubSeq(segment, i + 1, e - 1)
       IN IF e <= Len(segment) /\ segment[e] = "]"
          THEN <<[name |-> name, type |-> <<>>, position |-> <<i - 1, e>>]>>
          ELSE IF e <= Len(segment) /\ segment[e] = ":"
          THEN LET t == RunEnd(segment, e + 1, Letters)
               IN IF t > e + 1 /\ t <= Len(segment) /\ segment[t] = "]"
                  THEN <<[name |-> name,
                          type |-> SubSeq(segment, e + 1, t - 1),
                          position |-> <<i - 1, t>>]>>
                  ELSE <<>>
          ELSE <<>>

RECURSIVE ParamDefinitions(_, _)
\* the while loop over paramRegex.exec: every placeholder, left to right
ParamDefinitions(segment, i) ==
  IF i > Len(segment) THEN <<>>
  ELSE LET m == ParamAt(segment, i)
       IN IF m = <<>> THEN ParamDefinitions(segment, i + 1)
          ELSE m \o ParamDefinitions(segment, m[1].position[2] + 1)

\* the capture pattern of a declared type, named by its type; an undeclared
\* or unknown type gets the default pattern
getTypePattern(type) ==
  IF type = W_number THEN "number"
  ELSE IF type = W_boolean THEN "boolean"
  ELSE IF type = W_datetime THEN "datetime"
  ELSE IF type = W_uuid THEN "uuid"
  ELSE IF type = W_email THEN "email"
  ELSE IF type = W_slug THEN "slug"
  ELSE IF type = W_ipv4 THEN "ipv4"
  ELSE IF type = W_alpha THEN "alpha"
  ELSE IF type = W_alphanumeric THEN "alphanumeric"
  ELSE "string"

\* whether the capture pattern accepts exactly the text s
\*   number        -?\d+(?:\.\d+)?
\*   boolean       true|false
\*   alpha         [a-zA-Z]+
\*   alphanumeric  [a-zA-Z0-9]+
\*   string        [^:]+
\* (the languages of datetime, uuid, email, slug and ipv4 are left undefined:
\* no template below declares these types)
CaptureAccepts(pat, s) ==
  CASE pat = "number" ->
         LET b == IF Len(s) > 0 /\ s[1] = "-" THEN 2 ELSE 1
             e == RunEnd(s, b, Digits)
         IN /\ e > b
            /\ \/ e = Len(s) + 1
               \/ /\ e <= Len(s) /\ s[e] = "."
                  /\ RunEnd(s, e + 1, Digits) = Len(s) + 1
                  /\ Len(s) > e
    [] pat = "boolean" -> s \in {W_true, W_false}
    [] pat = "alpha" -> Len(s) > 0 /\ \A k \in 1..Len(s) : s[k] \in Letters
    [] pat = "alphanumeric" ->
         Len(s) > 0 /\ \A k \in 1..Len(s) : s[k] \in Letters \cup Digits
    [] pat = "string" -> Len(s) > 0 /\ \A k \in 1..Len(s) : s[k] # ":"

RECURSIVE RegexElements(_, _, _, _)
\* the regular expression built between "^" and "$": literal characters
\* (escaped, so matched as themselves) and one capture per placeholder
RegexElements(segment, params, k, lastIndex) ==
  IF k > Len(params)
  THEN [j \in 1..(Len(segment) - lastIndex) |->
          [lit |-> segment[lastIndex + j], cap |-> ""]]
  ELSE [j \in 1..(params[k].position[1] - lastIndex) |->
          [lit |-> segment[lastIndex + j], cap |-> ""]]
       \o <<[lit |-> "", cap |-> getTypePattern(params[k].type)]>>
       \o RegexElements(segment, params, k + 1, params[k].position[2])

NoPattern == [raw |-> <<>>, params |-> <<>>, regex |-> <<>>]

\* null when the segment has no placeholder.  The static regexCache only
\* saves recompiling the same segment text; the value returned is the same.
parseSegmentPattern(segment) ==
  LET params == ParamDefinitions(segment, 1)
  IN IF Len(params) = 0 THEN NoPattern
     ELSE [raw |-> segment, params |-> params,
           regex |-> RegexElements(segment, params, 1, 0)]

RECURSIVE RegexExecFrom(_, _, _, _)
\* regex.exec on the anchored expression: <<>> for no match, else
\* <<captures>>.  A capture is greedy: the longest text for which the rest
\* of the expression still matches.
RegexExecFrom(regex, k, s, p) ==
  IF k > Len(regex) THEN (IF p = Len(s) + 1 THEN << <<>> >> ELSE <<>>)
  ELSE IF regex[k].cap = ""
  THEN IF p <= Len(s) /\ s[p] = regex[k].lit
       THEN RegexExecFrom(regex, k + 1, s, p + 1)
       ELSE <<>>
  ELSE LET ends == {e \in p..Len(s) :
                      /\ CaptureAccepts(regex[k].cap, SubSeq(s, p, e))
                      /\ RegexExecFrom(regex, k + 1, s, e + 1) # <<>>}
       IN IF ends = {} THEN <<>>
          ELSE LET e == CHOOSE x \in ends : \A y \in ends : y <= x
               IN << <<SubSeq(s, p, e)>>
                     \o RegexExecFrom(regex, k + 1, s, e + 1)[1] >>

\* ------------------------------------------------------------------------
\* Type coercion
\* ------------------------------------------------------------------------
StringValue(s) == [kind |-> "string", str |-> s, num |-> 0, bool |-> FALSE]

NumberValue(n) == [kind |-> "number", str |-> <<>>, num |-> n, bool |-> FALSE]

BooleanValue(b) == [kind |-> "boolean", str |-> <<>>, num |-> 0, bool |-> b]

DigitValue(c) ==
  CASE c = "0" -> 0 [] c = "1" -> 1 [] c = "2" -> 2 [] c = "3" -> 3
    [] c = "4" -> 4 [] c = "5" -> 5 [] c = "6" -> 6 [] c = "7" -> 7
    [] c = "8" -> 8 [] c = "9" -> 9

RECURSIVE DecimalValue(_, _)
DecimalValue(s, n) ==
  IF n = 0 THEN 0 ELSE 10 * DecimalValue(s, n - 1) + DigitValue(s[n])

\* Number(value) of an optionally signed run of digits; any other text is
\* kept as the string (the isNaN branch, and decimals, which the bounded
\* inputs do not contain)
coerceParamValue(value, type) ==
  IF type = W_number
  THEN LET b == IF Len(value) > 0 /\ value[1] = "-" THEN 2 ELSE 1
           d == SubSeq(value, b, Len(value))
       IN IF Len(d) > 0 /\ \A k \in 1..Len(d) : d[k] \in Digits
          THEN NumberValue(IF b = 2 THEN 0 - DecimalValue(d, Len(d))
                           ELSE DecimalValue(d, Len(d)))
          ELSE StringValue(value)
  ELSE IF type = W_boolean THEN BooleanValue(value = W_true)
  ELSE StringValue(value)

\* the loop over pattern.params: params[name] is assigned in order, so the
\* last placeholder of a name gives its value
CapturedParams(pattern, match) ==
  IF match = <<>> THEN <<>>
  ELSE <<[name \in {pattern.params[i].name : i \in 1..Len(pattern.params)} |->
            LET i == CHOOSE j \in 1..Len(pattern.params) :
                       /\ pattern.params[j].name = name
                       /\ \A l \in 1..Len(pattern.params) :
                            pattern.params[l].name = name => l <= j
            IN coerceParamValue(match[1][i], pattern.params[i].type)]>>

\* null (<<>>) or <<params>>
extractParamsFromSegment(segment, pattern) ==
  IF pattern.regex = <<>> THEN <<>>
  ELSE CapturedParams(pattern, RegexExecFrom(pattern.regex, 1, segment, 1))

\* ------------------------------------------------------------------------
\* SimpleLRU: a Map in insertion order, oldest entry first
\* ------------------------------------------------------------------------
CacheMax == 1000

SimpleLRU(max) == [max |-> max, cache |-> <<>>]

LRU_has(lru, key) == \E i \in 1..Len(lru.cache) : lru.cache[i].key = key

LRU_delete(cache, key) == SelectSeq(cache, LAMBDA e : e.key # key)

\* the stored value of key; a stored null (no match) is <<>>
LRU_value(lru, key) ==
  (CHOOSE e \in {lru.cache[i] : i \in 1..Len(lru.cache)} : e.key = key).value

\* get: item is undefined for a missing key; only a truthy item (a RouteMatch,
\* not the stored null) is moved to the end
LRU_get(lru, key) ==
  IF ~LRU_has(lru, key)
  THEN [defined |-> FALSE, item |-> <<>>, lru |-> lru]
  ELSE LET item == LRU_value(lru, key)
       IN [defined |-> TRUE, item |-> item,
           lru |-> IF item # <<>>
                   THEN [lru EXCEPT !.cache =
                           Append(LRU_delete(lru.cache, key),
                                  [key |-> key, value |-> item])]
                   ELSE lru]

LRU_set_NoEviction(lru, key, value) ==
  [lru EXCEPT !.cache =
     Append(IF LRU_has(lru, key) THEN LRU_delete(lru.cache, key) ELSE lru.cache,
            [key |-> key, value |-> value])]

LRU_set(lru, key, value) ==
  LET kept == IF LRU_has(lru, key) THEN LRU_delete(lru.cache, key)
              ELSE IF Len(lru.cache) >= lru.max THEN Tail(lru.cache)
              ELSE lru.cache
  IN [lru EXCEPT !.cache = Append(kept, [key |-> key, value |-> value])]

LRU_clear(lru) == [lru EXCEPT !.cache = <<>>]

\* ------------------------------------------------------------------------
\* Trie nodes.  The trie is a function from a node's path (the edges from the
\* root) to the node's fields; children, paramChild and wildcardChild of a
\* node are the paths one edge longer.
\* ------------------------------------------------------------------------
StaticEdge(segment) == [kind |-> "static", key |-> segment]

ParamEdge == [kind |-> "param", key |-> <<>>]

WildcardEdge == [kind |-> "wildcard", key |-> <<>>]

TrieNode(segment, type) ==
  [type |-> type, segment |-> segment, pattern |-> NoPattern,
   paramName |-> <<>>, handler |-> None, controllers |-> EmptyMap,
   middleware |-> <<>>, guards |-> <<>>, schema |-> None,
   isEndpoint |-> FALSE]

PutNode(trie, path, node) ==
  [p \in DOMAIN trie \cup {path} |-> IF p = path THEN node ELSE trie[p]]

HasChild(trie, node, edge) == Append(node, edge) \in DOMAIN trie

\* the edges leaving a node
ChildEdges(trie, node) ==
  {p[Len(p)] : p \in {q \in DOMAIN trie :
                        Len(q) = Len(node) + 1 /\ SubSeq(q, 1, Len(node)) = node}}

\* new EventRouter(delimiter)
EventRouter(d) ==
  [root |-> PutNode(EmptyMap, <<>>, TrieNode(<<>>, "static")),
   globalMiddleware |-> <<>>, globalGuards |-> <<>>, delimiter |-> d,
   matchCache |-> SimpleLRU(CacheMax)]

\* the node reached, with the trie that holds it
insertSegment(trie, node, segment) ==
  IF segment = <<"*">>
  THEN [trie |-> IF HasChild(trie, node, WildcardEdge) THEN trie
                 ELSE PutNode(trie, Append(node, WildcardEdge),
                              TrieNode(<<"*">>, "wildcard")),
        node |-> Append(node, WildcardEdge)]
  ELSE LET pattern == parseSegmentPattern(segment)
       IN IF pattern # NoPattern
          THEN [trie |-> IF HasChild(trie, node, ParamEdge) THEN trie
                         ELSE PutNode(trie, Append(node, ParamEdge),
                                [TrieNode(segment, "param") EXCEPT
                                   !.pattern = pattern]),
                node |-> Append(node, ParamEdge)]
          ELSE IF Len(segment) > 0 /\ segment[1] = ":"
          THEN [trie |-> IF HasChild(trie, node, ParamEdge) THEN trie
                         ELSE PutNode(trie, Append(node, ParamEdge),
                                [TrieNode(segment, "param") EXCEPT
                                   !.paramName = Tail(segment)]),
                node |-> Append(node, ParamEdge)]
          ELSE [trie |-> IF HasChild(trie, node, StaticEdge(segment)) THEN trie
                         ELSE PutNode(trie, Append(node, StaticEdge(segment)),
                                      TrieNode(segment, "static")),
                node |-> Append(node, StaticEdge(segment))]

RECURSIVE InsertSegments(_, _, _, _)
\* the loop `for (i...) node = this.insertSegment(node, segments[i])`
InsertSegments(trie, node, segments, i) ==
  IF i > Len(segments) THEN [trie |-> trie, node |-> node]
  ELSE LET r == insertSegment(trie, node, segments[i])
       IN InsertSegments(r.trie, r.node, segments, i + 1)

\* a registration's config; an omitted config or field is the empty list or
\* undefined, which both registration paths treat alike
NoConfig == [middleware |-> <<>>, guards |-> <<>>, schema |-> None]

\* on without the cache invalidation
on_KeepsCache(router, channel, handler, config) ==
  LET r == InsertSegments(router.root, <<>>,
                          parseChannel(router.delimiter, channel), 1)
  IN [router EXCEPT
        !.root = [r.trie EXCEPT ![r.node] =
                    [@ EXCEPT !.isEndpoint = TRUE,
                              !.handler = handler,
                              !.middleware = config.middleware,
                              !.guards = config.guards,
                              !.schema = config.schema]]]

on(router, channel, handler, config) ==
  LET r == InsertSegments(router.root, <<>>,
                          parseChannel(router.delimiter, channel), 1)
  IN [router EXCEPT
        !.matchCache = LRU_clear(router.matchCache),
        !.root = [r.trie EXCEPT ![r.node] =
                    [@ EXCEPT !.isEndpoint = TRUE,
                              !.handler = handler,
                              !.middleware = config.middleware,
                              !.guards = config.guards,
                              !.schema = config.schema]]]

RECURSIVE routes(_, _)
\* routes: a sequence of [channel, handler, config] in the object's key order
routes(router, entries) ==
  IF entries = <<>> THEN router
  ELSE routes(on(router, entries[1].channel, entries[1].handler,
                 entries[1].config), Tail(entries))

MapSet(map, key, value) ==
  [k \in DOMAIN map \cup {key} |-> IF k = key THEN value ELSE map[k]]

\* a verb registration that sets the endpoint's lists as on does
registerController_Replaces(router, channel, method, controller, config) ==
  LET r == InsertSegments(router.root, <<>>,
                          parseChannel(router.delimiter, channel), 1)
  IN [router EXCEPT
        !.matchCache = LRU_clear(router.matchCache),
        !.root = [r.trie EXCEPT ![r.node] =
                    [@ EXCEPT !.isEndpoint = TRUE,
                              !.controllers = MapSet(@, method, controller),
                              !.schema = config.schema,
                              !.middleware = config.middleware,
                              !.guards = config.guards]]]

registerController(router, channel, method, controller, config) ==
  LET r == InsertSegments(router.root, <<>>,
                          parseChannel(router.delimiter, channel), 1)
  IN [router EXCEPT
        !.matchCache = LRU_clear(router.matchCache),
        !.root = [r.trie EXCEPT ![r.node] =
                    [@ EXCEPT !.isEndpoint = TRUE,
                              !.controllers = MapSet(@, method, controller),
                              !.schema = config.schema,
                              !.middleware = @ \o config.middleware,
                              !.guards = @ \o config.guards]]]

use(router, middleware) ==
  [router EXCEPT !.globalMiddleware = Append(@, middleware)]

guard(router, g) == [router EXCEPT !.globalGuards = Append(@, g)]

RECURSIVE deepMergeNode(_, _, _, _)
RECURSIVE MergeChildren(_, _, _, _, _)
\* the three child loops of deepMergeNode over the source node's edges; the
\* children are merged into disjoint subtrees, so their order is immaterial
MergeChildren(trie, target, src, source, edges) ==
  IF edges = {} THEN trie
  ELSE LET e == CHOOSE x \in edges : TRUE
           tp == Append(target, e)
           sp == Append(source, e)
           made == IF e.kind = "static" THEN TrieNode(e.key, "static")
                   ELSE IF e.kind = "param"
                   THEN [TrieNode(src[sp].segment, "param") EXCEPT
                           !.pattern = src[sp].pattern,
                           !.paramName = src[sp].paramName]
                   ELSE TrieNode(<<"*">>, "wildcard")
           t1 == IF tp \in DOMAIN trie THEN trie ELSE PutNode(trie, tp, made)
       IN MergeChildren(deepMergeNode(t1, tp, src, sp), target, src, source,
                        edges \ {e})

deepMergeNode(trie, target, src, source) ==
  LET s == src[source]
      t1 == IF s.isEndpoint
            THEN [trie EXCEPT ![target] =
                    [@ EXCEPT !.isEndpoint = TRUE,
                              !.handler = s.handler,
                              !.middleware = @ \o s.middleware,
                              !.guards = @ \o s.guards,
                              !.schema = s.schema,
                              !.controllers = ObjectAssign(@, s.controllers)]]
            ELSE trie
  IN MergeChildren(t1, target, src, source, ChildEdges(src, source))

mergeNode(trie, target, src, source, prefixSegments) ==
  LET r == InsertSegments(trie, target, prefixSegments, 1)
  IN deepMergeNode(r.trie, r.node, src, source)

\* merge that leaves the global lists of the target as they are
merge_OwnGlobals(router, other, prefix) ==
  [router EXCEPT
     !.matchCache = LRU_clear(router.matchCache),
     !.root = mergeNode(router.root, <<>>, other.root, <<>>,
                        IF prefix # <<>>
                        THEN parseChannel(router.delimiter, prefix)
                        ELSE <<>>)]

\* merge of another router (never the router itself)
merge(router, other, prefix) ==
  LET prefixSegments == IF prefix # <<>>
                        THEN parseChannel(router.delimiter, prefix) ELSE <<>>
  IN [router EXCEPT
        !.matchCache = LRU_clear(router.matchCache),
        !.root = mergeNode(router.root, <<>>, other.root, <<>>, prefixSegments),
        !.globalMiddleware = @ \o other.globalMiddleware,
        !.globalGuards = @ \o other.globalGuards]

\* ------------------------------------------------------------------------
\* Matcher
\* ------------------------------------------------------------------------
Pop(stack) == SubSeq(stack, 1, Len(stack) - 1)

Frame(node, index, paramsSnapshot, phase) ==
  [node |-> node, index |-> index, paramsSnapshot |-> paramsSnapshot,
   phase |-> phase]

\* `if (extracted) { Object.assign(newParams, extracted); matchFound = true }`
AssignExtracted(paramsSnapshot, extracted) ==
  IF extracted # <<>> THEN <<ObjectAssign(paramsSnapshot, extracted[1])>>
  ELSE <<>>

\* the parametric child's verdict on a segment: <<>> when matchFound stays
\* false, else <<newParams>>
ParamChildMatch(child, segment, paramsSnapshot) ==
  IF child.pattern # NoPattern
  THEN AssignExtracted(paramsSnapshot,
                       extractParamsFromSegment(segment, child.pattern))
  ELSE IF child.paramName # <<>>
  THEN <<ObjectAssign(paramsSnapshot,
                      [k \in {child.paramName} |-> StringValue(segment)])>>
  ELSE <<>>

NoNode == [found |-> FALSE, node |-> <<>>, params |-> EmptyMap]

WildcardMatches_AnyChild(trie, node) == HasChild(trie, node, WildcardEdge)

\* `node.wildcardChild && node.wildcardChild.isEndpoint`
WildcardMatches(trie, node) ==
  /\ HasChild(trie, node, WildcardEdge)
  /\ trie[Append(node, WildcardEdge)].isEndpoint

RECURSIVE MatchLoop(_, _, _)
RECURSIVE ParamPhase(_, _, _, _)
\* the phase-1 block writing the captures into the frame's own snapshot
ParamPhase_SharesSnapshot(trie, segments, st, m) ==
  IF m # <<>>
  THEN MatchLoop(trie, segments,
                 Append([st EXCEPT ![Len(st)].paramsSnapshot = m[1]],
                        Frame(Append(st[Len(st)].node, ParamEdge),
                              st[Len(st)].index + 1, m[1], 0)))
  ELSE MatchLoop(trie, segments, Pop(st))

\* the end of the phase-1 block: push the parametric child's frame when
\* matchFound, else fall to stack.pop()
ParamPhase(trie, segments, st, m) ==
  IF m # <<>>
  THEN MatchLoop(trie, segments,
                 Append(st, Frame(Append(st[Len(st)].node, ParamEdge),
                                  st[Len(st)].index + 1, m[1], 0)))
  ELSE MatchLoop(trie, segments, Pop(st))

\* one iteration of `while (stack.length > 0)`.  `phase` is the value read
\* from the frame when the iteration starts: after the phase-0 block finds no
\* static child the tests `phase === 1` and `phase === 2` compare that value,
\* so the iteration ends in stack.pop().
MatchLoop(trie, segments, stack) ==
  IF stack = <<>> THEN NoNode
  ELSE LET top == Len(stack)
           current == stack[top]
           node == current.node
           index == current.index
           phase == current.phase
       IN IF index = Len(segments)
          THEN IF trie[node].isEndpoint
               THEN [found |-> TRUE, node |-> node,
                     params |-> current.paramsSnapshot]
               ELSE MatchLoop(trie, segments, Pop(stack))
          ELSE LET segment == segments[index + 1]
               IN IF phase = 0
                  THEN IF HasChild(trie, node, StaticEdge(segment))
                       THEN MatchLoop(trie, segments,
                              Append([stack EXCEPT ![top].phase = 1],
                                     Frame(Append(node, StaticEdge(segment)),
                                           index + 1,
                                           current.paramsSnapshot, 0)))
                       ELSE MatchLoop(trie, segments, Pop(stack))
                  ELSE IF phase = 1
                  THEN ParamPhase(trie, segments,
                         [stack EXCEPT ![top].phase = 2],
                         IF HasChild(trie, node, ParamEdge)
                         THEN ParamChildMatch(trie[Append(node, ParamEdge)],
                                              segment, current.paramsSnapshot)
                         ELSE <<>>)
                  ELSE IF phase = 2
                  THEN IF WildcardMatches(trie, node)
                       THEN [found |-> TRUE, node |-> Append(node, WildcardEdge),
                             params |-> current.paramsSnapshot]
                       ELSE MatchLoop(trie, segments, Pop(stack))
                  ELSE MatchLoop(trie, segments, Pop(stack))

matchSegmentsIterative(trie, root, segments) ==
  MatchLoop(trie, segments, <<Frame(root, 0, EmptyMap, 0)>>)

RouteMatch(node, params) ==
  [handler |-> node.handler, params |-> params, middleware |-> node.middleware,
   guards |-> node.guards, schema |-> node.schema]

\* `if (!node || !node.isEndpoint || !node.handler)`: null (<<>>), else
\* <<RouteMatch>>
ResultOfNode(router, r) ==
  IF ~r.found \/ ~router.root[r.node].isEndpoint
     \/ router.root[r.node].handler = None
  THEN <<>>
  ELSE <<RouteMatch(router.root[r.node], r.params)>>

\* the traversal part of match, after a cache miss
MatchTraversal(router, channel) ==
  ResultOfNode(router,
               matchSegmentsIterative(router.root, <<>>,
                                      parseChannel(router.delimiter, channel)))

\* `this.matchCache.set(channel, result); return result`
StoreAndReturn(router, lru, channel, res) ==
  [result |-> res,
   router |-> [router EXCEPT !.matchCache = LRU_set(lru, channel, res)]]

\* match after `cached = this.matchCache.get(channel)`
MatchCached(router, channel, cached) ==
  IF cached.defined
  THEN [result |-> cached.item,
        router |-> [router EXCEPT !.matchCache = cached.lru]]
  ELSE StoreAndReturn(router, cached.lru, channel,
                      MatchTraversal(router, channel))

\* match: the value returned and the router with its cache updated
match(router, channel) ==
  MatchCached(router, channel, LRU_get(router.matchCache, channel))

NotNull(m) == [result |-> m.result # <<>>, router |-> m.router]

has(router, channel) == NotNull(match(router, channel))

\* ------------------------------------------------------------------------
\* Bounded inputs
\* ------------------------------------------------------------------------
DefaultDelimiter == ":"

\* a:b
T_a_b == <<"a", ":", "b">>

\* a:[x]
T_a_x == <<"a", ":", "[", "x", "]">>

\* a:[y]
T_a_y == <<"a", ":", "[", "y", "]">>

\* a:*:b
T_a_star_b == <<"a", ":", "*", ":", "b">>

\* a:b:c
T_a_b_c == <<"a", ":", "b", ":", "c">>

\* a:*
T_a_star == <<"a", ":", "*">>

\* user:[id]
T_user_id == W_user \o <<":", "[">> \o W_id \o <<"]">>

\* profile:[id]
T_profile_id == W_profile \o <<":", "[">> \o W_id \o <<"]">>

\* items:[id:number]
T_items_id_number ==
  W_items \o <<":", "[">> \o W_id \o <<":">> \o W_number \o <<"]">>

Templates == {T_a_b, T_a_x, T_a_b_c, T_a_star, T_user_id, T_items_id_number}

\* user:42
Ch_user_42 == W_user \o <<":">> \o W_42

\* a:z
Ch_a_z == <<"a", ":", "z">>

\* items:42
Ch_items_42 == W_items \o <<":">> \o W_42

\* items:abc
Ch_items_abc == W_items \o <<":">> \o W_abc

\* user:profile:42
Ch_user_profile_42 == W_user \o <<":">> \o W_profile \o <<":">> \o W_42

\* profile:42
Ch_profile_42 == W_profile \o <<":">> \o W_42

Channels == {Ch_user_42, T_a_b, Ch_a_z, T_a_b_c, Ch_items_42, Ch_items_abc,
             Ch_user_profile_42, Ch_profile_42}

Config1 ==
  [middleware |-> <<"mC">>, guards |-> <<"gC">>, schema |-> "zodSchema"]

\* the handler and config of an `on` call: a bare handler, or one with
\* middleware, a guard and a schema
OnCalls ==
  {[handler |-> "h1", config |-> NoConfig],
   [handler |-> "h2", config |-> Config1]}

\* verb registrations: a function controller and a plain value
VerbCalls ==
  {[method |-> "GET", controller |-> "ctrl", config |-> Config1],
   [method |-> "POST", controller |-> "value", config |-> NoConfig]}

VerbTemplates == {T_a_b, T_a_x}

\* routers handed to merge, each built by registrations on a new router
SubProfile == on(EventRouter(DefaultDelimiter), T_profile_id, "h2", NoConfig)

SubVerbOnly ==
  registerController(EventRouter(DefaultDelimiter), T_a_b, "GET", "ctrl", NoConfig)

SubGlobals ==
  on(guard(use(EventRouter(DefaultDelimiter), "mS"), "gS"), <<"b">>, "h2", Config1)

SubRouter(name) ==
  CASE name = "SubProfile" -> SubProfile
    [] name = "SubVerbOnly" -> SubVerbOnly
    [] name = "SubGlobals" -> SubGlobals

Merges ==
  {[other |-> "SubProfile", prefix |-> W_user],
   [other |-> "SubVerbOnly", prefix |-> <<>>],
   [other |-> "SubGlobals", prefix |-> <<"a">>],
   [other |-> "SubGlobals", prefix |-> W_user]}

RouteTables ==
  {<<[channel |-> T_a_b, handler |-> "h1", config |-> NoConfig],
     [channel |-> T_a_x, handler |-> "h2", config |-> Config1]>>}

MaxOps == 3

\* ------------------------------------------------------------------------
\* The router as a state machine
\* ------------------------------------------------------------------------
\* root .. matchCache are the router's fields; returned is the value the
\* latest match or has call returned; onRegistered and merged record the
\* channels passed to on and the merges made; opCount counts the calls.
VARIABLES root, globalMiddleware, globalGuards, delimiter, matchCache,
          returned, onRegistered, merged, opCount

\* One emit or execute call: pc is its position, call its arguments, matched
\* the route it resolved, allGuards/guardIndex the guard loop, allMiddleware/
\* nextIndex/callStack the middleware chain (nextIndex is the chain's `index`
\* variable) and the frames of next() that have
\* not returned, result the closure variable of execute, outcome how the
\* promise settled, trace the invocations made so far, thrown the exception
\* that is propagating ("" when none).
VARIABLES pc, call, matched, allGuards, guardIndex, allMiddleware,
          nextIndex, callStack, result, outcome, trace, thrown

routerVars == <<root, globalMiddleware, globalGuards, delimiter, matchCache>>

\* A SimpleLRU object of its own: lruOp is the latest call made on it with
\* the keys it held before, touched its keys in the order of their latest hit
\* or put.  regLog is the sequence of registration calls made on the router.
VARIABLES simpleLRU, lruOp, touched, regLog

\* An EventClient: baseChannel and adapter are its config, the three
\* interceptor lists and subscriptions its fields.  The adapter is
\* "defaultAdapter" (the router's execute) or "never", an adapter whose
\* promise never settles.
VARIABLES baseChannel, adapter, requestInterceptors, responseInterceptors,
          errorInterceptors, subscriptions

\* One client.request call: requested is its arguments, cpc its position,
\* traceId, mergedConfig, response and clientError the locals of that name,
\* interceptorIndex the position of the interceptor loop that is running,
\* signal the state of the caller's AbortSignal ("none" when no signal is
\* given), listening whether the abort listener is registered, timer the
\* timeout's timer, delivered whether the adapter's promise has settled,
\* requestOutcome how the request's promise settled, clientLog the adapter
\* call, the events of the race and the error interceptors' invocations, in
\* order.
VARIABLES requested, cpc, traceId, mergedConfig, interceptorIndex, signal,
          listening, timer, delivered, response, clientError, requestOutcome,
          clientLog

\* One client.publish call: the callbacks it took from subscriptions, the
\* invocations it made, the callbacks whose promise is pending and how its
\* own promise settled.
VARIABLES published

\* The SubscriptionHandles client.subscribe has returned, in order: the full
\* channel and the callback each closes over, and whether it is "live",
\* "unsubscribed" (its own unsubscribe was called) or "revoked" (by
\* unsubscribe(channel) or unsubscribeAll()).
VARIABLES handles

\* One run of matchSegmentsIterative, iteration by iteration: frames is its
\* stack, attempts the number of child attempts made from each frame, and
\* matchRun the segments it was called with and what it returned.
VARIABLES frames, attempts, matchRun

\* The Electron IPC adapters.  rendererSubs is the subscriptions map of the
\* renderer adapter of each webContents, closures the unsubscribe closures
\* its subscribe calls returned, ipcQueue the messages each renderer has sent
\* that the main process has not handled yet, mainSubs the subscriptions map
\* of the main adapter, wcState what webContents.fromId finds for an id,
\* streamed the latest publish of the main adapter and ipcCall one request
\* of a renderer adapter.
VARIABLES rendererSubs, closures, ipcQueue, mainSubs, wcState, streamed,
          ipcCall

matcherVars == <<frames, attempts, matchRun>>

adapterVars == <<rendererSubs, closures, ipcQueue, mainSubs, wcState,
                 streamed, ipcCall>>

clientFields == <<baseChannel, adapter, requestInterceptors,
                  responseInterceptors, errorInterceptors>>

requestVars == <<requested, cpc, traceId, mergedConfig, interceptorIndex,
                 signal, listening, timer, delivered, response, clientError,
                 requestOutcome, clientLog>>

publishVars == <<subscriptions, published, handles>>

clientVars == <<clientFields, requestVars, publishVars, matcherVars,
                adapterVars>>

dispatchVars == <<pc, call, matched, allGuards, guardIndex, allMiddleware,
                  nextIndex, callStack, result, outcome, trace, thrown>>

vars == <<root, globalMiddleware, globalGuards, delimiter, matchCache,
          returned, onRegistered, merged, opCount, pc, call, matched,
          allGuards, guardIndex, allMiddleware, nextIndex, callStack,
          result, outcome, trace, thrown, simpleLRU, lruOp, touched, regLog,
          clientVars>>

ghostVars == <<returned, onRegistered, merged, opCount, simpleLRU, lruOp,
               touched, regLog, clientVars>>

MaxLru == 2

\* nothing has been called on the SimpleLRU object, nothing registered
Untouched ==
  /\ simpleLRU = SimpleLRU(MaxLru)
  /\ lruOp = [op |-> "none", key |-> <<>>, before |-> <<>>]
  /\ touched = <<>>
  /\ regLog = <<>>

\* an absent error or response field, and the request's promise before it
\* settles
NoError == [message |-> None, code |-> None, channel |-> <<>>, traceId |-> None]

NoResponse == [data |-> None, channel |-> <<>>, traceId |-> None]

\* no request call has been made
NoRequest ==
  /\ requested = [method |-> "", channel |-> <<>>, traceId |-> <<>>,
                  signal |-> "none"]
  /\ cpc = "idle"
  /\ traceId = None
  /\ mergedConfig = [channel |-> <<>>, metadata |-> [traceId |-> None],
                     signal |-> FALSE]
  /\ interceptorIndex = 0
  /\ signal = "none"
  /\ listening = FALSE
  /\ timer = "unset"
  /\ delivered = FALSE
  /\ response = NoResponse
  /\ clientError = NoError
  /\ requestOutcome = [state |-> "pending", response |-> NoResponse,
                       error |-> NoError]
  /\ clientLog = <<>>

\* no publish call has been made
NoPublish ==
  /\ published = [state |-> "none", channel |-> <<>>, callbacks |-> <<>>,
                  invoked |-> <<>>, pending |-> {}]
  /\ handles = <<>>

\* matchSegmentsIterative has not been called
NoMatchRun ==
  /\ frames = <<>>
  /\ attempts = <<>>
  /\ matchRun = [state |-> "none", segments |-> <<>>, result |-> NoNode]

WebContentsIds == {1, 2}

NoStream ==
  [state |-> "none", channel |-> <<>>, before |-> EmptyMap,
   resolved |-> [w \in WebContentsIds |-> "alive"], sent |-> <<>>]

NoIpcCall ==
  [stage |-> "none", invoke |-> "pending", thrownCode |-> None,
   envelope |-> [data |-> None, error |-> <<>>],
   settled |-> [state |-> "pending", data |-> None, error |-> NoError]]

\* new adapters: nothing subscribed, nothing in flight, every webContents
\* alive
NoAdapter ==
  /\ rendererSubs = [w \in WebContentsIds |-> EmptyMap]
  /\ closures = <<>>
  /\ ipcQueue = [w \in WebContentsIds |-> <<>>]
  /\ mainSubs = EmptyMap
  /\ wcState = [w \in WebContentsIds |-> "alive"]
  /\ streamed = NoStream
  /\ ipcCall = NoIpcCall

\* new EventClient(): no base channel, the default adapter, no interceptors,
\* no subscriptions
NoClient ==
  /\ baseChannel = <<>>
  /\ adapter = "defaultAdapter"
  /\ requestInterceptors = <<>>
  /\ responseInterceptors = <<>>
  /\ errorInterceptors = <<>>
  /\ subscriptions = EmptyMap
  /\ NoRequest
  /\ NoPublish
  /\ NoMatchRun
  /\ NoAdapter

\* the router object made of the state variables
Self ==
  [root |-> root, globalMiddleware |-> globalMiddleware,
   globalGuards |-> globalGuards, delimiter |-> delimiter,
   matchCache |-> matchCache]

\* the state variables take the fields of router r
Becomes(r) ==
  /\ root' = r.root
  /\ globalMiddleware' = r.globalMiddleware
  /\ globalGuards' = r.globalGuards
  /\ delimiter' = r.delimiter
  /\ matchCache' = r.matchCache

NothingReturned == [op |-> "none", channel |-> <<>>, value |-> <<>>, bool |-> FALSE]

\* the state variables hold router r
Holds(r) ==
  /\ root = r.root
  /\ globalMiddleware = r.globalMiddleware
  /\ globalGuards = r.globalGuards
  /\ delimiter = r.delimiter
  /\ matchCache = r.matchCache

NoCall == [op |-> "none", method |-> "", channel |-> <<>>, valid |-> TRUE]

NoRoute ==
  [terminal |-> None, params |-> EmptyMap, middleware |-> <<>>,
   guards |-> <<>>, schema |-> None]

Pending == [state |-> "pending", error |-> "", value |-> None]

\* no emit or execute call has been made
Idle ==
  /\ pc = "idle"
  /\ call = NoCall
  /\ matched = NoRoute
  /\ allGuards = <<>>
  /\ guardIndex = 0
  /\ allMiddleware = <<>>
  /\ nextIndex = 0
  /\ callStack = <<>>
  /\ result = None
  /\ outcome = Pending
  /\ trace = <<>>
  /\ thrown = ""

Init ==
  /\ Holds(EventRouter(DefaultDelimiter))
  /\ returned = NothingReturned
  /\ onRegistered = {}
  /\ merged = {}
  /\ opCount = 0
  /\ Idle
  /\ Untouched
  /\ NoClient

\* a registration call that leaves router r, having passed the channels ons
\* to on and made the merges ms
Registered(r, ons, ms) ==
  /\ opCount < MaxOps
  /\ opCount' = opCount + 1
  /\ Becomes(r)
  /\ onRegistered' = onRegistered \cup ons
  /\ merged' = merged \cup ms
  /\ UNCHANGED returned
  /\ UNCHANGED dispatchVars
  /\ UNCHANGED <<simpleLRU, lruOp, touched, regLog, clientVars>>

On ==
  \E channel \in Templates, oc \in OnCalls :
    Registered(on(Self, channel, oc.handler, oc.config), {channel}, {})

Routes ==
  \E table \in RouteTables :
    Registered(routes(Self, table),
               {table[i].channel : i \in 1..Len(table)}, {})

\* get, post, put, patch, delete
Verb ==
  \E channel \in VerbTemplates, vc \in VerbCalls :
    Registered(registerController(Self, channel, vc.method,
                                  vc.controller, vc.config), {}, {})

Use == Registered(use(Self, "mA"), {}, {})

Guard == Registered(guard(Self, "gA"), {}, {})

Merge == \E m \in Merges : Registered(merge(Self, SubRouter(m.other), m.prefix), {}, {m})

Returns(m, ret) ==
  /\ opCount < MaxOps
  /\ opCount' = opCount + 1
  /\ Becomes(m.router)
  /\ returned' = ret
  /\ UNCHANGED <<onRegistered, merged>>
  /\ UNCHANGED dispatchVars
  /\ UNCHANGED <<simpleLRU, lruOp, touched, regLog, clientVars>>

MatchReturned(channel, m) ==
  Returns(m, [op |-> "match", channel |-> channel, value |-> m.result,
              bool |-> FALSE])

HasReturned(channel, m) ==
  Returns(m, [op |-> "has", channel |-> channel, value |-> <<>>,
              bool |-> m.result])

Match == \E channel \in Channels : MatchReturned(channel, match(Self, channel))

Has == \E channel \in Channels : HasReturned(channel, has(Self, channel))

Next == On \/ Routes \/ Verb \/ Use \/ Guard \/ Merge \/ Match \/ Has

Spec == Init /\ [][Next]_vars

\* ------------------------------------------------------------------------
\* Dispatch pipeline: emit and execute
\* ------------------------------------------------------------------------
Functions_WithValue == {"h1", "h2", "ctrl", "value"}

\* the handlers and controllers that are functions; any other controller is
\* a plain value
Functions == {"h1", "h2", "ctrl"}

\* the validation methods a schema object has
SchemaMethods(schema) ==
  CASE schema = "zodSchema" -> {"safeParse", "parse"}
    [] schema = "parseSchema" -> {"parse"}
    [] schema = "joiSchema" -> {"validate"}
    [] OTHER -> {}

validatePayload_Skipped(schema, valid) == ""

\* the error thrown, "" when none; valid tells whether the schema's methods
\* (those of the ValidatorSchema interface) accept the payload
validatePayload(schema, valid) ==
  IF "safeParse" \in SchemaMethods(schema)
  THEN IF ~valid THEN "Validation Error" ELSE ""
  ELSE IF "parse" \in SchemaMethods(schema)
  THEN IF ~valid THEN "thrown by schema.parse" ELSE ""
  ELSE IF "validate" \in SchemaMethods(schema)
  THEN IF ~valid THEN "Validation Error" ELSE ""
  ELSE ""

ControllerOfNode_AnyVerb(router, r, method) ==
  IF ~r.found \/ ~router.root[r.node].isEndpoint THEN <<>>
  ELSE <<[terminal |-> IF method \in DOMAIN router.root[r.node].controllers
                       THEN router.root[r.node].controllers[method]
                       ELSE None,
          params |-> r.params,
          middleware |-> router.root[r.node].middleware,
          guards |-> router.root[r.node].guards,
          schema |-> router.root[r.node].schema]>>

\* `if (!node || !node.isEndpoint)` and `if (!controller)` of
\* matchController: null (<<>>) or <<route>>
ControllerOfNode(router, r, method) ==
  IF ~r.found \/ ~router.root[r.node].isEndpoint THEN <<>>
  ELSE IF method \notin DOMAIN router.root[r.node].controllers THEN <<>>
  ELSE <<[terminal |-> router.root[r.node].controllers[method],
          params |-> r.params,
          middleware |-> router.root[r.node].middleware,
          guards |-> router.root[r.node].guards,
          schema |-> router.root[r.node].schema]>>

matchController(router, channel, method) ==
  ControllerOfNode(router,
                   matchSegmentsIterative(router.root, <<>>,
                                          parseChannel(router.delimiter, channel)),
                   method)

\* the route emit takes from a match result
RouteOfMatch(res) ==
  IF res = <<>> THEN <<>>
  ELSE <<[terminal |-> res[1].handler, params |-> res[1].params,
          middleware |-> res[1].middleware, guards |-> res[1].guards,
          schema |-> res[1].schema]>>

AllGuards_LocalFirst(router, route) == route.guards \o router.globalGuards

\* [...this.globalGuards, ...match.guards]
AllGuards(router, route) == router.globalGuards \o route.guards

AllMiddleware_LocalFirst(router, route) ==
  route.middleware \o router.globalMiddleware

\* [...this.globalMiddleware, ...match.middleware]
AllMiddleware(router, route) == router.globalMiddleware \o route.middleware

StageFrame(id, kind) == [id |-> id, kind |-> kind, calls |-> 0]

\* one call of the chain's `next`: the stage it invokes and the index left
NextStage(middleware, i, handler) ==
  IF i < Len(middleware)
  THEN [frame |-> StageFrame(middleware[i + 1], "middleware"), index |-> i + 1]
  ELSE [frame |-> StageFrame(handler, "handler"), index |-> i]

Event(ev, id, res) == [ev |-> ev, id |-> id, res |-> res]

Settle(state, error, value) ==
  /\ pc' = state
  /\ outcome' = [state |-> state, error |-> error, value |-> value]

\* emit/execute from the match to the start of the guard loop
Begin(c, route, noMatch) ==
  /\ pc = "idle"
  /\ call' = c
  /\ UNCHANGED <<guardIndex, allMiddleware, nextIndex, callStack, result,
                 trace, thrown>>
  /\ IF route = <<>>
     THEN /\ Settle("rejected", noMatch, None)
          /\ UNCHANGED <<matched, allGuards>>
     ELSE IF /\ route[1].schema # None
             /\ validatePayload(route[1].schema, c.valid) # ""
     THEN /\ Settle("rejected", validatePayload(route[1].schema, c.valid), None)
          /\ matched' = route[1]
          /\ UNCHANGED allGuards
     ELSE /\ pc' = "guards"
          /\ matched' = route[1]
          /\ allGuards' = AllGuards(Self, route[1])
          /\ UNCHANGED outcome

DispatchChannels == {T_a_b, Ch_a_z}

HttpMethods == {"GET", "POST", "PUT"}

EmitMatched(channel, valid, m) ==
  /\ Becomes(m.router)
  /\ Begin([op |-> "emit", method |-> "", channel |-> channel, valid |-> valid],
           RouteOfMatch(m.result), "No handler found")

Emit ==
  \E channel \in DispatchChannels, valid \in BOOLEAN :
    EmitMatched(channel, valid, match(Self, channel))

Execute ==
  \E method \in HttpMethods, channel \in DispatchChannels, valid \in BOOLEAN :
    /\ UNCHANGED routerVars
    /\ Begin([op |-> "execute", method |-> method, channel |-> channel,
              valid |-> valid],
             matchController(Self, channel, method), "No controller found")

\* `guard(ctx)` is called
GuardCall ==
  /\ pc = "guards"
  /\ guardIndex < Len(allGuards)
  /\ pc' = "awaitGuard"
  /\ trace' = Append(trace, Event("guard", allGuards[guardIndex + 1], ""))
  /\ UNCHANGED <<call, matched, allGuards, guardIndex, allMiddleware,
                 nextIndex, callStack, result, outcome, thrown>>
  /\ UNCHANGED routerVars

Exception_GuardRejected(id) == "Guard rejected"

\* the exception a guard or a stage throws
Exception(id) == "thrown by " \o id

\* `if (!allowed)` does not throw
Allowed_Unless_Thrown(res) == res # "throw"

Allowed(res) == res = "true"

\* `await guard(ctx)` settles: truthy, falsy, or the guard threw
GuardSettle ==
  \E res \in {"true", "false", "throw"} :
    /\ pc = "awaitGuard"
    /\ trace' = Append(trace, Event("guardResult", allGuards[guardIndex + 1], res))
    /\ IF Allowed(res)
       THEN /\ pc' = "guards"
            /\ guardIndex' = guardIndex + 1
            /\ UNCHANGED outcome
       ELSE /\ Settle("rejected",
                      IF res = "false" THEN "Guard rejected"
                      ELSE Exception(allGuards[guardIndex + 1]),
                      None)
            /\ UNCHANGED guardIndex
    /\ UNCHANGED <<call, matched, allGuards, allMiddleware, nextIndex,
                   callStack, result, thrown>>
    /\ UNCHANGED routerVars

\* after the guard loop: a plain-value controller is returned, otherwise the
\* chain is built and next() called for the first time
StartChain ==
  /\ pc = "guards"
  /\ guardIndex = Len(allGuards)
  /\ IF call.op = "execute" /\ matched.terminal \notin Functions
     THEN /\ Settle("resolved", "", matched.terminal)
          /\ UNCHANGED <<allMiddleware, nextIndex, callStack, trace>>
     ELSE /\ pc' = "chain"
          /\ allMiddleware' = AllMiddleware(Self, matched)
          /\ nextIndex' = NextStage(allMiddleware', 0, matched.terminal).index
          /\ callStack' = <<NextStage(allMiddleware', 0, matched.terminal).frame>>
          /\ trace' = Append(trace,
                             Event("enter",
                                   NextStage(allMiddleware', 0,
                                             matched.terminal).frame.id, ""))
          /\ UNCHANGED outcome
  /\ UNCHANGED <<call, matched, allGuards, guardIndex, result, thrown>>
  /\ UNCHANGED routerVars

MaxNextCalls == 2

\* the running middleware calls `await next()`
CallNext ==
  /\ pc = "chain"
  /\ callStack[Len(callStack)].kind = "middleware"
  /\ callStack[Len(callStack)].calls < MaxNextCalls
  /\ nextIndex' = NextStage(allMiddleware, nextIndex, matched.terminal).index
  /\ callStack' = Append([callStack EXCEPT ![Len(callStack)].calls = @ + 1],
                         NextStage(allMiddleware, nextIndex,
                                   matched.terminal).frame)
  /\ trace' = trace \o
       <<Event("next", callStack[Len(callStack)].id, ""),
         Event("enter",
               NextStage(allMiddleware, nextIndex, matched.terminal).frame.id,
               "")>>
  /\ UNCHANGED <<pc, call, matched, allGuards, guardIndex, allMiddleware,
                 result, outcome, thrown>>
  /\ UNCHANGED routerVars

\* the running stage returns; the awaiting caller resumes, or the dispatch
\* resolves when it was the first stage
Return ==
  /\ pc = "chain"
  /\ callStack' = Pop(callStack)
  /\ trace' = Append(trace, Event("exit", callStack[Len(callStack)].id, ""))
  /\ result' = IF call.op = "execute" /\ callStack[Len(callStack)].kind = "handler"
               THEN "controller result" ELSE result
  /\ IF Len(callStack) = 1
     THEN Settle("resolved", "", IF call.op = "execute" THEN result' ELSE None)
     ELSE UNCHANGED <<pc, outcome>>
  /\ UNCHANGED <<call, matched, allGuards, guardIndex, allMiddleware,
                 nextIndex, thrown>>
  /\ UNCHANGED routerVars

\* an exception leaves the top stage: the caller awaiting it gets it, or the
\* dispatch rejects with it when that was the first stage
Leaves(exception, how) ==
  /\ callStack' = Pop(callStack)
  /\ trace' = Append(trace, Event("throw", callStack[Len(callStack)].id, how))
  /\ IF Len(callStack) = 1
     THEN /\ Settle("rejected", exception, None)
          /\ thrown' = ""
     ELSE /\ pc' = "throwing"
          /\ thrown' = exception
          /\ UNCHANGED outcome
  /\ UNCHANGED <<call, matched, allGuards, guardIndex, allMiddleware,
                 nextIndex, result>>
  /\ UNCHANGED routerVars

\* the running stage throws
Throw ==
  /\ pc = "chain"
  /\ Leaves(Exception(callStack[Len(callStack)].id), "raised")

\* the middleware whose `await next()` threw does not catch
Propagate ==
  /\ pc = "throwing"
  /\ Leaves(thrown, "propagated")

\* the middleware whose `await next()` threw catches and goes on
Catch ==
  /\ pc = "throwing"
  /\ pc' = "chain"
  /\ thrown' = ""
  /\ trace' = Append(trace, Event("catch", callStack[Len(callStack)].id, ""))
  /\ UNCHANGED <<call, matched, allGuards, guardIndex, allMiddleware,
                 nextIndex, callStack, result, outcome>>
  /\ UNCHANGED routerVars

\* routers the dispatches run on, each built by registrations
GlobalsRouter ==
  use(use(guard(guard(EventRouter(DefaultDelimiter), "gA"), "gB"), "mA"), "mB")

FullRouter ==
  on(registerController(
       registerController(GlobalsRouter, T_a_b, "GET", "ctrl", NoConfig),
       T_a_b, "POST", "value", NoConfig),
     T_a_b, "h1", Config1)

BareRouter == on(EventRouter(DefaultDelimiter), T_a_b, "h1", NoConfig)

VerbRouter ==
  registerController(
    guard(EventRouter(DefaultDelimiter), "gA"), T_a_b, "GET", "ctrl",
    [middleware |-> <<"mC">>, guards |-> <<>>, schema |-> "joiSchema"])

ParseRouter ==
  on(use(EventRouter(DefaultDelimiter), "mA"), T_a_b, "h2",
     [middleware |-> <<>>, guards |-> <<"gC">>, schema |-> "parseSchema"])

DispatchSetups ==
  {[router |-> FullRouter, ons |-> {T_a_b}],
   [router |-> BareRouter, ons |-> {T_a_b}],
   [router |-> VerbRouter, ons |-> {}],
   [router |-> ParseRouter, ons |-> {T_a_b}]}

InitDispatch ==
  /\ \E s \in DispatchSetups : Holds(s.router) /\ onRegistered = s.ons
  /\ returned = NothingReturned
  /\ merged = {}
  /\ opCount = 0
  /\ Idle
  /\ Untouched
  /\ NoClient

NextDispatch ==
  \/ (Emit /\ UNCHANGED ghostVars)
  \/ (Execute /\ UNCHANGED ghostVars)
  \/ (GuardCall /\ UNCHANGED ghostVars)
  \/ (GuardSettle /\ UNCHANGED ghostVars)
  \/ (StartChain /\ UNCHANGED ghostVars)
  \/ (CallNext /\ UNCHANGED ghostVars)
  \/ (Return /\ UNCHANGED ghostVars)
  \/ (Throw /\ UNCHANGED ghostVars)
  \/ (Propagate /\ UNCHANGED ghostVars)
  \/ (Catch /\ UNCHANGED ghostVars)

SpecDispatch == InitDispatch /\ [][NextDispatch]_vars

\* ------------------------------------------------------------------------
\* getRoutes, and registrations on a new router with their history
\* ------------------------------------------------------------------------
\* [...path, segment].join(delimiter), joined being path.join(delimiter)
PathJoin(router, node, joined, segment) ==
  IF node = <<>> THEN segment ELSE joined \o router.delimiter \o segment

RECURSIVE collectRoutes(_, _, _)
RECURSIVE CollectStatic(_, _, _, _)
\* the routes below the static children in edges; the source visits them in
\* the Map's insertion order, which the trie of this model does not keep
CollectStatic(router, node, joined, edges) ==
  IF edges = {} THEN <<>>
  ELSE LET e == CHOOSE x \in edges : TRUE
       IN collectRoutes(router, Append(node, e),
                        PathJoin(router, node, joined, e.key))
            \o CollectStatic(router, node, joined, edges \ {e})

collectRoutes(router, node, joined) ==
  (IF router.root[node].isEndpoint THEN <<joined>> ELSE <<>>)
    \o CollectStatic(router, node, joined,
                     {e \in ChildEdges(router.root, node) : e.kind = "static"})
    \o (IF HasChild(router.root, node, ParamEdge)
        THEN collectRoutes(router, Append(node, ParamEdge),
                           PathJoin(router, node, joined,
                                    router.root[Append(node, ParamEdge)].segment))
        ELSE <<>>)
    \o (IF HasChild(router.root, node, WildcardEdge)
        THEN collectRoutes(router, Append(node, WildcardEdge),
                           PathJoin(router, node, joined, <<"*">>))
        ELSE <<>>)

getRoutes(router) == collectRoutes(router, <<>>, <<>>)

MaxRegs == 3

\* on(channel, handler, config), recorded
RegOn ==
  \E channel \in Templates \cup {T_a_y, T_a_star_b}, oc \in OnCalls :
    /\ Len(regLog) < MaxRegs
    /\ Becomes(on(Self, channel, oc.handler, oc.config))
    /\ regLog' = Append(regLog, [op |-> "on", channel |-> channel,
                                 method |-> "", handler |-> oc.handler,
                                 config |-> oc.config])
    /\ onRegistered' = onRegistered \cup {channel}
    /\ UNCHANGED <<dispatchVars, returned, merged, opCount, simpleLRU, lruOp,
                   touched, clientVars>>

\* get/post(channel, controller, config), recorded
RegVerb ==
  \E channel \in VerbTemplates, vc \in VerbCalls :
    /\ Len(regLog) < MaxRegs
    /\ Becomes(registerController(Self, channel, vc.method, vc.controller,
                                  vc.config))
    /\ regLog' = Append(regLog, [op |-> "verb", channel |-> channel,
                                 method |-> vc.method,
                                 handler |-> vc.controller,
                                 config |-> vc.config])
    /\ UNCHANGED <<dispatchVars, returned, onRegistered, merged, opCount,
                   simpleLRU, lruOp, touched, clientVars>>

NextRegister == RegOn \/ RegVerb

SpecRegister == Init /\ [][NextRegister]_vars

\* ------------------------------------------------------------------------
\* A SimpleLRU object under get, set and clear
\* ------------------------------------------------------------------------
\* cache.get(key)
LruGet ==
  \E k \in Channels :
    /\ simpleLRU' = LRU_get(simpleLRU, k).lru
    /\ lruOp' = [op |-> "get", key |-> k,
                 before |-> [i \in 1..Len(simpleLRU.cache) |->
                               simpleLRU.cache[i].key]]
    /\ touched' = IF LRU_has(simpleLRU, k)
                  THEN Append(SelectSeq(touched, LAMBDA t : t # k), k)
                  ELSE touched
    /\ UNCHANGED <<routerVars, dispatchVars, returned, onRegistered, merged,
                   opCount, regLog, clientVars>>

\* cache.set(key, value), value null (<<>>) or a match result
LruSet ==
  \E k \in Channels, v \in {<<>>, <<"r">>} :
    /\ simpleLRU' = LRU_set(simpleLRU, k, v)
    /\ lruOp' = [op |-> "set", key |-> k,
                 before |-> [i \in 1..Len(simpleLRU.cache) |->
                               simpleLRU.cache[i].key]]
    /\ touched' = Append(SelectSeq(touched,
                                   LAMBDA t : t # k /\ LRU_has(simpleLRU', t)),
                         k)
    /\ UNCHANGED <<routerVars, dispatchVars, returned, onRegistered, merged,
                   opCount, regLog, clientVars>>

\* cache.clear()
LruClear ==
  /\ simpleLRU' = LRU_clear(simpleLRU)
  /\ lruOp' = [op |-> "clear", key |-> <<>>,
               before |-> [i \in 1..Len(simpleLRU.cache) |->
                             simpleLRU.cache[i].key]]
  /\ touched' = <<>>
  /\ UNCHANGED <<routerVars, dispatchVars, returned, onRegistered, merged,
                 opCount, regLog, clientVars>>

NextLRU == LruGet \/ LruSet \/ LruClear

SpecLRU == Init /\ [][NextLRU]_vars

\* ------------------------------------------------------------------------
\* Properties of matching and the match cache
\* ------------------------------------------------------------------------
RECURSIVE PrioritySearch(_, _, _, _, _)
\* the search the documentation describes: at every node the static child
\* first, then the parametric child, then the wildcard child, each tried
\* when the one before is absent or finds no endpoint
PrioritySearch(trie, node, segments, index, params) ==
  IF index = Len(segments)
  THEN IF trie[node].isEndpoint
       THEN [found |-> TRUE, node |-> node, params |-> params]
       ELSE NoNode
  ELSE LET segment == segments[index + 1]
           s == IF HasChild(trie, node, StaticEdge(segment))
                THEN PrioritySearch(trie, Append(node, StaticEdge(segment)),
                                    segments, index + 1, params)
                ELSE NoNode
           m == IF HasChild(trie, node, ParamEdge)
                THEN ParamChildMatch(trie[Append(node, ParamEdge)], segment,
                                     params)
                ELSE <<>>
           p == IF m # <<>>
                THEN PrioritySearch(trie, Append(node, ParamEdge), segments,
                                    index + 1, m[1])
                ELSE NoNode
       IN IF s.found THEN s
          ELSE IF p.found THEN p
          ELSE IF /\ HasChild(trie, node, WildcardEdge)
                  /\ trie[Append(node, WildcardEdge)].isEndpoint
          THEN [found |-> TRUE, node |-> Append(node, WildcardEdge),
                params |-> params]
          ELSE NoNode

\* C1: match finds the endpoint of the static-then-parametric-then-wildcard
\* search from every node, and no-match only when that search fails; with
\* only user:[id] registered with h1, match(user:42) is h1 with id = "42".
C1_PriorityOrder ==
  /\ \A c \in Channels :
       match(Self, c).result =
         ResultOfNode(Self, PrioritySearch(root, <<>>,
                                           parseChannel(delimiter, c), 0,
                                           EmptyMap))
  /\ root = on(EventRouter(DefaultDelimiter), T_user_id, "h1", NoConfig).root
       => /\ match(Self, Ch_user_42).result # <<>>
          /\ match(Self, Ch_user_42).result[1].handler = "h1"
          /\ match(Self, Ch_user_42).result[1].params =
               [k \in {W_id} |-> StringValue(W_42)]

\* a template whose segments are all static
AllStatic(d, t) ==
  \A i \in 1..Len(parseChannel(d, t)) :
    /\ parseChannel(d, t)[i] # <<"*">>
    /\ parseSegmentPattern(parseChannel(d, t)[i]) = NoPattern
    /\ parseChannel(d, t)[i][1] # ":"

\* the node at the end of the static edges of t
StaticPath(d, t) ==
  [i \in 1..Len(parseChannel(d, t)) |-> StaticEdge(parseChannel(d, t)[i])]

\* C2: an all-static template registered with on matches its own channel,
\* resolving to its static endpoint's stored handler with empty params,
\* whatever else has been registered or merged.
C2_StaticRouteMatches ==
  \A t \in onRegistered :
    AllStatic(delimiter, t) =>
      /\ match(Self, t).result # <<>>
      /\ match(Self, t).result[1].handler = root[StaticPath(delimiter, t)].handler
      /\ match(Self, t).result[1].params = EmptyMap

\* C3: after merge(sub, "user") with profile:[id] registered in sub,
\* user:profile:42 matches sub's handler with id = "42" and profile:42 does
\* not match.
C3_MergedUnderPrefix ==
  [other |-> "SubProfile", prefix |-> W_user] \in merged =>
    /\ match(Self, Ch_user_profile_42).result # <<>>
    /\ match(Self, Ch_user_profile_42).result[1].handler = "h2"
    /\ match(Self, Ch_user_profile_42).result[1].params =
         [k \in {W_id} |-> StringValue(W_42)]
    /\ match(Self, Ch_profile_42).result = <<>>

\* C4: with the ":" delimiter and items:[id:number] registered, items:42
\* matches with id the number 42 and items:abc does not match.
C4_NumberParam ==
  (delimiter = ":" /\ T_items_id_number \in onRegistered) =>
    /\ match(Self, Ch_items_42).result # <<>>
    /\ match(Self, Ch_items_42).result[1].params =
         [k \in {W_id} |-> NumberValue(42)]
    /\ match(Self, Ch_items_abc).result = <<>>

\* what a caller can tell apart in a match result
Outcome(res) ==
  IF res = <<>> THEN <<>>
  ELSE <<res[1].handler, res[1].middleware, res[1].guards, res[1].schema>>

\* C5: in every state, match(c) returns the outcome an uncached traversal of
\* the current trie gives, and every entry the cache holds is that outcome.
C5_CacheTransparent ==
  /\ \A c \in Channels :
       Outcome(match(Self, c).result) = Outcome(MatchTraversal(Self, c))
  /\ \A i \in 1..Len(matchCache.cache) :
       Outcome(matchCache.cache[i].value) =
         Outcome(MatchTraversal(Self, matchCache.cache[i].key))

\* a match result returned earlier is stale for the current trie, and the
\* cache holds another channel's entry made since the registration
C5_Witness ==
  /\ returned.op = "match"
  /\ Outcome(returned.value) # Outcome(MatchTraversal(Self, returned.channel))
  /\ returned.value # <<>>

\* ------------------------------------------------------------------------
\* Properties of the dispatch pipeline
\* ------------------------------------------------------------------------
IsEvent(e, ev) == e.ev = ev

\* the ids of the trace's events of one kind, in order
IdsOf(ev) ==
  [k \in 1..Len(SelectSeq(trace, LAMBDA e : IsEvent(e, ev))) |->
     SelectSeq(trace, LAMBDA e : IsEvent(e, ev))[k].id]

IsPrefix(s, t) ==
  /\ Len(s) <= Len(t)
  /\ \A k \in 1..Len(s) : s[k] = t[k]

Reverse(s) == [k \in 1..Len(s) |-> s[Len(s) + 1 - k]]

HasLeft(e) == e.ev \in {"exit", "throw"}

\* the ids of the stages that have ended, by return or by exception, in order
LeftIds ==
  [k \in 1..Len(SelectSeq(trace, HasLeft)) |-> SelectSeq(trace, HasLeft)[k].id]

\* how many events of the first j satisfy ev/res
CountBefore(j, ev, res) ==
  Cardinality({k \in 1..j : trace[k].ev = ev /\ trace[k].res = res})

\* C6: once a guard of an emit or execute has resolved to a falsy value,
\* the call is rejected with the guard-rejection error and nothing is invoked
\* after that guard: no later guard, no middleware, no handler or controller.
C6_GuardShortCircuit ==
  \A j \in 1..Len(trace) :
    (trace[j].ev = "guardResult" /\ trace[j].res = "false") =>
      /\ j = Len(trace)
      /\ pc = "rejected"
      /\ outcome = [state |-> "rejected", error |-> "Guard rejected",
                    value |-> None]
      /\ callStack = <<>>
      /\ IdsOf("enter") = <<>>

\* the second of three guards of an execute resolved false, with middleware
\* and a controller waiting behind the guards
C6_Witness ==
  /\ call.op = "execute"
  /\ pc = "rejected"
  /\ outcome.error = "Guard rejected"
  /\ guardIndex = 1
  /\ Len(allGuards) = 3
  /\ matched.terminal = "ctrl"
  /\ globalMiddleware \o matched.middleware # <<>>

\* every middleware has called next at most once so far
NextAtMostOnce ==
  \A j, k \in 1..Len(trace) :
    (trace[j].ev = "next" /\ trace[k].ev = "next" /\ trace[j].id = trace[k].id)
      => j = k

\* C7: the stages of a dispatch start in the order global middleware, then
\* route middleware, then the handler; each stage starts directly after the
\* stage before it called next; a middleware ends only after every stage
\* inside it has ended; and a resolved dispatch in which every middleware
\* called next once ran exactly A, B, C, handler.
C7_MiddlewareOrder ==
  NextAtMostOnce =>
    /\ IsPrefix(IdsOf("enter"),
                globalMiddleware \o matched.middleware \o <<matched.terminal>>)
    /\ \A j \in 1..Len(trace) :
         (trace[j].ev = "enter" /\ Len(IdsOf("enter")) > 0
            /\ trace[j].id # IdsOf("enter")[1]) =>
           /\ trace[j - 1].ev = "next"
           /\ \E k \in 1..(Len(IdsOf("enter")) - 1) :
                /\ IdsOf("enter")[k] = trace[j - 1].id
                /\ IdsOf("enter")[k + 1] = trace[j].id
    /\ IsPrefix(LeftIds, Reverse(IdsOf("enter")))
    /\ (pc = "resolved" /\ Len(IdsOf("next")) = Len(allMiddleware)
          /\ matched.terminal \in Functions) =>
         /\ IdsOf("enter") =
              globalMiddleware \o matched.middleware \o <<matched.terminal>>
         /\ LeftIds = Reverse(IdsOf("enter"))

\* an emit with global middleware mA, mB and route middleware mC resolved
\* after all of them called next
C7_Witness ==
  /\ call.op = "emit"
  /\ pc = "resolved"
  /\ globalMiddleware = <<"mA", "mB">>
  /\ matched.middleware = <<"mC">>
  /\ IdsOf("enter") = <<"mA", "mB", "mC", "h1">>
  /\ IdsOf("exit") = <<"h1", "mC", "mB", "mA">>

\* C8: the guards of a dispatch are called in the order global guards, then
\* the matched route's guards; a guard is called only after the one before it
\* has resolved true, and its result is awaited before anything else runs; no
\* middleware, handler or controller starts before every guard resolved true.
C8_GuardsSequential ==
  /\ IsPrefix(IdsOf("guard"), globalGuards \o matched.guards)
  /\ \A j \in 1..Len(trace) :
       /\ (trace[j].ev = "guard" /\ j > 1) =>
            (trace[j - 1].ev = "guardResult" /\ trace[j - 1].res = "true")
       /\ (trace[j].ev = "guard" /\ j < Len(trace)) =>
            (trace[j + 1].ev = "guardResult" /\ trace[j + 1].id = trace[j].id)
       /\ trace[j].ev = "guardResult" =>
            (j > 1 /\ trace[j - 1].ev = "guard")
       /\ trace[j].ev = "enter" =>
            CountBefore(j, "guardResult", "true") =
              Len(globalGuards \o matched.guards)
  /\ (pc = "resolved" /\ call.op = "execute") =>
       CountBefore(Len(trace), "guardResult", "true") =
         Len(globalGuards \o matched.guards)

\* two global guards and a route guard have resolved true in that order and
\* the first middleware has started
C8_Witness ==
  /\ pc = "chain"
  /\ globalGuards = <<"gA", "gB">>
  /\ matched.guards = <<"gC">>
  /\ IdsOf("guard") = <<"gA", "gB", "gC">>
  /\ IdsOf("enter") = <<"mA">>

\* C9: when the matched route has a schema and the schema rejects the
\* payload, the call is rejected with the validation error and no guard,
\* middleware, handler or controller has been invoked.
C9_ValidationFirst ==
  (pc # "idle" /\ matched # NoRoute /\ matched.schema # None
     /\ SchemaMethods(matched.schema) # {} /\ ~call.valid) =>
    /\ pc = "rejected"
    /\ outcome.state = "rejected"
    /\ outcome.error \in {"Validation Error", "thrown by schema.parse"}
    /\ trace = <<>>

\* an execute on a route with guards, middleware and a schema whose validate
\* reports an error
C9_Witness ==
  /\ call.op = "execute"
  /\ ~call.valid
  /\ matched.schema = "joiSchema"
  /\ globalGuards # <<>>
  /\ matched.middleware # <<>>
  /\ pc = "rejected"
  /\ outcome.error = "Validation Error"

\* C10: whatever the middleware do with next, each middleware of the chain
\* and the terminal handler or controller is invoked at most once in a
\* dispatch.
C10_InvokedAtMostOnce ==
  \A j, k \in 1..Len(IdsOf("enter")) :
    IdsOf("enter")[j] = IdsOf("enter")[k] => j = k

\* the event at j is a middleware returning without having called next
ShortCircuitAt(j) ==
  /\ trace[j].ev = "exit"
  /\ \E k \in 1..Len(allMiddleware) : allMiddleware[k] = trace[j].id
  /\ \A k \in 1..j : ~(trace[k].ev = "next" /\ trace[k].id = trace[j].id)

\* C11: after a middleware has returned without calling next, no further
\* middleware and not the handler or controller is invoked, and a dispatch
\* that resolves after it resolves with undefined.
C11_ShortCircuit ==
  \A j \in 1..Len(trace) :
    ShortCircuitAt(j) =>
      /\ \A k \in (j + 1)..Len(trace) : trace[k].ev # "enter"
      /\ pc = "resolved" => outcome = [state |-> "resolved", error |-> "",
                                       value |-> None]

\* the endpoint lookup r finds no controller for the verb
NoControllerAt(r, method) ==
  \/ ~r.found
  \/ ~root[r.node].isEndpoint
  \/ method \notin DOMAIN root[r.node].controllers

\* C12: an emit whose channel matches no endpoint with a handler, and an
\* execute whose channel matches no endpoint or whose endpoint has no
\* controller for the verb, is rejected with the no-match error with nothing
\* validated or invoked; the rejection leaves the trie and the global lists
\* as they were.
C12_NoMatchRejects ==
  /\ []((call.op = "emit" /\ MatchTraversal(Self, call.channel) = <<>>) =>
          /\ pc = "rejected"
          /\ outcome = [state |-> "rejected", error |-> "No handler found",
                        value |-> None]
          /\ matched = NoRoute
          /\ trace = <<>>)
  /\ []((/\ call.op = "execute"
         /\ NoControllerAt(matchSegmentsIterative(
                             root, <<>>, parseChannel(delimiter, call.channel)),
                           call.method)) =>
          /\ pc = "rejected"
          /\ outcome = [state |-> "rejected", error |-> "No controller found",
                        value |-> None]
          /\ matched = NoRoute
          /\ trace = <<>>)
  /\ [][(outcome'.error \in {"No handler found", "No controller found"}) =>
          /\ root' = root
          /\ globalMiddleware' = globalMiddleware
          /\ globalGuards' = globalGuards
          /\ delimiter' = delimiter]_vars

\* an execute of a verb the matched endpoint has no controller for, on a
\* router with guards, middleware and a schema at that endpoint
C12_Witness ==
  /\ call.op = "execute"
  /\ call.method = "PUT"
  /\ call.channel = T_a_b
  /\ root[StaticPath(delimiter, T_a_b)].isEndpoint
  /\ root[StaticPath(delimiter, T_a_b)].guards # <<>>
  /\ outcome.error = "No controller found"

\* the first event after j that is not an exception passing through a
\* middleware
AfterPropagation(j) ==
  IF \E k \in (j + 1)..Len(trace) :
       ~(trace[k].ev = "throw" /\ trace[k].res = "propagated")
  THEN CHOOSE k \in (j + 1)..Len(trace) :
         /\ ~(trace[k].ev = "throw" /\ trace[k].res = "propagated")
         /\ \A i \in (j + 1)..(k - 1) :
              trace[i].ev = "throw" /\ trace[i].res = "propagated"
  ELSE Len(trace) + 1

\* C13: a guard that throws rejects the dispatch with its exception, not
\* with the guard-rejection error, and nothing is invoked after it; an
\* exception thrown by a middleware, the handler or the controller passes
\* through the awaiting middleware until one of them catches it, and rejects
\* the dispatch with that exception when none does.
C13_ExceptionsPropagate ==
  \A j \in 1..Len(trace) :
    /\ (trace[j].ev = "guardResult" /\ trace[j].res = "throw") =>
         /\ j = Len(trace)
         /\ pc = "rejected"
         /\ outcome = [state |-> "rejected",
                       error |-> "thrown by " \o trace[j].id, value |-> None]
         /\ IdsOf("enter") = <<>>
    /\ (trace[j].ev = "throw" /\ trace[j].res = "raised") =>
         IF AfterPropagation(j) <= Len(trace)
         THEN trace[AfterPropagation(j)].ev = "catch"
         ELSE \/ pc = "throwing" /\ thrown = "thrown by " \o trace[j].id
              \/ /\ pc = "rejected"
                 /\ outcome = [state |-> "rejected",
                               error |-> "thrown by " \o trace[j].id,
                               value |-> None]
                 /\ callStack = <<>>

\* the handler's exception passed through three middleware and rejected the
\* emit
C13_Witness ==
  /\ call.op = "emit"
  /\ pc = "rejected"
  /\ outcome.error = "thrown by h1"
  /\ IdsOf("throw") = <<"h1", "mC", "mB", "mA">>

\* C14: an execute whose controller is not a function invokes no middleware
\* and no controller; it resolves with the stored value, and only after the
\* payload passed the schema and every guard resolved true.
C14_ValueController ==
  (call.op = "execute" /\ matched # NoRoute /\ matched.terminal = "value") =>
    /\ IdsOf("enter") = <<>>
    /\ callStack = <<>>
    /\ pc \in {"guards", "awaitGuard", "resolved", "rejected"}
    /\ pc = "resolved" =>
         /\ outcome = [state |-> "resolved", error |-> "",
                       value |-> matched.terminal]
         /\ IdsOf("guardResult") = globalGuards \o matched.guards
         /\ CountBefore(Len(trace), "guardResult", "true") = Len(trace) \div 2
         /\ (matched.schema # None /\ SchemaMethods(matched.schema) # {})
              => call.valid
    /\ (matched.schema # None /\ SchemaMethods(matched.schema) # {}
          /\ ~call.valid) => pc = "rejected"

\* the value controller was returned after three guards, with two global
\* middleware and one route middleware registered
C14_Witness ==
  /\ call.op = "execute"
  /\ pc = "resolved"
  /\ outcome.value = "value"
  /\ Len(IdsOf("guard")) = 3
  /\ Len(globalMiddleware \o matched.middleware) = 3
  /\ matched.schema = "zodSchema"

\* ------------------------------------------------------------------------
\* Properties of the cache object
\* ------------------------------------------------------------------------
Range(q) == {q[i] : i \in 1..Len(q)}

\* C15: the cache never holds more entries than its capacity, which is 1000
\* for a router's match cache: a set of a new key at capacity evicts exactly
\* one entry, a set of an existing key evicts none, a set below capacity only
\* adds, and clear empties the cache.
C15_CapacityKept ==
  /\ matchCache.max = 1000
  /\ Len(matchCache.cache) <= matchCache.max
  /\ Len(simpleLRU.cache) <= simpleLRU.max
  /\ \A i, j \in 1..Len(simpleLRU.cache) :
       simpleLRU.cache[i].key = simpleLRU.cache[j].key => i = j
  /\ lruOp.op = "set" =>
       /\ LRU_has(simpleLRU, lruOp.key)
       /\ IF lruOp.key \in Range(lruOp.before)
          THEN {e.key : e \in Range(simpleLRU.cache)} = Range(lruOp.before)
          ELSE IF Len(lruOp.before) = simpleLRU.max
          THEN /\ Cardinality(Range(lruOp.before)
                                \ {e.key : e \in Range(simpleLRU.cache)}) = 1
               /\ Len(simpleLRU.cache) = simpleLRU.max
          ELSE {e.key : e \in Range(simpleLRU.cache)} =
                 Range(lruOp.before) \cup {lruOp.key}
  /\ lruOp.op = "clear" => simpleLRU.cache = <<>>

\* a new key was set on a full cache
C15_Witness ==
  /\ lruOp.op = "set"
  /\ lruOp.key \notin Range(lruOp.before)
  /\ Len(lruOp.before) = simpleLRU.max

\* C16: the cache keeps its entries in the order of their latest hit or put,
\* oldest first, whatever value an entry stores, so that the entry a set at
\* capacity evicts (the first) is the least recently touched one.
C16_RecencyOrder ==
  [i \in 1..Len(simpleLRU.cache) |-> simpleLRU.cache[i].key] = touched

\* ------------------------------------------------------------------------
\* Properties of registration and enumeration
\* ------------------------------------------------------------------------
RECURSIVE Replay(_, _)
\* the router after the first n calls of log, made on a new router
Replay(log, n) ==
  IF n = 0 THEN EventRouter(DefaultDelimiter)
  ELSE IF log[n].op = "on"
  THEN on(Replay(log, n - 1), log[n].channel, log[n].handler, log[n].config)
  ELSE registerController(Replay(log, n - 1), log[n].channel, log[n].method,
                          log[n].handler, log[n].config)

\* C17: getRoutes of a router on which templates were registered (by on or
\* the verb methods) returns each registered template string once and nothing
\* else.
C17_RoutesRoundTrip ==
  /\ Range(getRoutes(Self)) = {regLog[i].channel : i \in 1..Len(regLog)}
  /\ Len(getRoutes(Self)) =
       Cardinality({regLog[i].channel : i \in 1..Len(regLog)})

\* C18: a registration call that repeats the call before it leaves the
\* router as that call left it: same routes and same handler, controllers,
\* middleware, guards and schema at every node.
C18_Idempotent ==
  (Len(regLog) >= 2 /\ regLog[Len(regLog)] = regLog[Len(regLog) - 1]) =>
    /\ root = Replay(regLog, Len(regLog) - 1).root
    /\ getRoutes(Self) = getRoutes(Replay(regLog, Len(regLog) - 1))

\* the log without its j-th call
WithoutCall(log, j) == SubSeq(log, 1, j - 1) \o SubSeq(log, j + 1, Len(log))

\* C19: when on registered the parametric templates P1 and later P2 at the
\* position below "a" (and nothing else was registered there), the node keeps
\* P1's pattern and P1's handler, middleware and guards, and every channel
\* resolves as it does without the registration of P2.
C19_FirstParamWins ==
  \A i, j \in 1..Len(regLog) :
    (/\ i < j
     /\ regLog[i].op = "on" /\ regLog[j].op = "on"
     /\ {regLog[i].channel, regLog[j].channel} = {T_a_x, T_a_y}
     /\ \A k \in 1..Len(regLog) \ {i, j} :
          regLog[k].channel \notin {T_a_x, T_a_y}) =>
      /\ root[<<StaticEdge(<<"a">>), ParamEdge>>].pattern =
           parseSegmentPattern(parseChannel(delimiter, regLog[i].channel)[2])
      /\ root[<<StaticEdge(<<"a">>), ParamEdge>>].handler = regLog[i].handler
      /\ root[<<StaticEdge(<<"a">>), ParamEdge>>].middleware =
           regLog[i].config.middleware
      /\ root[<<StaticEdge(<<"a">>), ParamEdge>>].guards =
           regLog[i].config.guards
      /\ \A c \in {Ch_a_z, T_a_b, <<"a", ":", "b", ":", "z">>} :
           match(Self, c).result =
             match(Replay(WithoutCall(regLog, j), Len(regLog) - 1), c).result

\* the matcher resolved segments to the wildcard child r.node
AtWildcard(r) ==
  /\ r.found
  /\ r.node # <<>>
  /\ r.node[Len(r.node)] = WildcardEdge

WildcardChannels ==
  {<<"a">>, Ch_a_z, T_a_b, T_a_b_c, <<"a", ":", "b", ":", "z">>}

C21_StopsAtWildcard ==
  /\ \A n \in DOMAIN root :
       \A i \in 1..Len(n) : n[i] = WildcardEdge => i = Len(n)
  /\ \A k \in 1..Len(regLog) :
       regLog[k].channel = T_a_star_b =>
         root[<<StaticEdge(<<"a">>), WildcardEdge>>].isEndpoint
  /\ \A k \in 1..Len(getRoutes(Self)) :
       \A i \in 1..Len(getRoutes(Self)[k]) :
         getRoutes(Self)[k][i] = "*" => i = Len(getRoutes(Self)[k])

\* ------------------------------------------------------------------------
\* Successive dispatches whose guards, middleware and handlers write
\* ctx.params
\* ------------------------------------------------------------------------
\* match stores in the cache the RouteMatch object it returns, and emit puts
\* that object's params into ctx (`params: match.params`): the cache entry of
\* the channel and ctx share one params object.  The cache after ctx.params
\* became params:
SharedParams(lru, channel, params) ==
  [lru EXCEPT !.cache =
     [i \in DOMAIN lru.cache |->
        IF lru.cache[i].key = channel /\ lru.cache[i].value # <<>>
        THEN [key |-> channel,
              value |-> <<[lru.cache[i].value[1] EXCEPT !.params = params]>>]
        ELSE lru.cache[i]]]

\* the guard, middleware or handler that is running assigns ctx.params.seen
\* (once per dispatch).  matchController builds a params object of its own
\* for every execute, so only emit's write reaches the cache.
WriteParams ==
  /\ pc \in {"awaitGuard", "chain"}
  /\ \A i \in 1..Len(trace) : trace[i].ev # "write"
  /\ matched' = [matched EXCEPT
                   !.params = ObjectAssign(@, [k \in {<<"seen">>} |->
                                                 BooleanValue(TRUE)])]
  /\ matchCache' = IF call.op = "emit"
                   THEN SharedParams(matchCache, call.channel, matched'.params)
                   ELSE matchCache
  /\ trace' = Append(trace,
                     Event("write",
                           IF pc = "awaitGuard" THEN allGuards[guardIndex + 1]
                           ELSE callStack[Len(callStack)].id, ""))
  /\ UNCHANGED <<root, globalMiddleware, globalGuards, delimiter>>
  /\ UNCHANGED <<pc, call, allGuards, guardIndex, allMiddleware, nextIndex,
                 callStack, result, outcome, thrown>>
  /\ UNCHANGED ghostVars

MaxDispatches == 2

\* the emit or execute call has settled and its caller goes on to the next
\* call; opCount counts the calls that settled
Again ==
  /\ pc \in {"resolved", "rejected"}
  /\ opCount + 1 < MaxDispatches
  /\ opCount' = opCount + 1
  /\ pc' = "idle"
  /\ call' = NoCall
  /\ matched' = NoRoute
  /\ allGuards' = <<>>
  /\ guardIndex' = 0
  /\ allMiddleware' = <<>>
  /\ nextIndex' = 0
  /\ callStack' = <<>>
  /\ result' = None
  /\ outcome' = Pending
  /\ trace' = <<>>
  /\ thrown' = ""
  /\ UNCHANGED routerVars
  /\ UNCHANGED <<returned, onRegistered, merged, simpleLRU, lruOp, touched,
                 regLog, clientVars>>

NextParams == NextDispatch \/ WriteParams \/ Again

SpecParams == InitDispatch /\ [][NextParams]_vars

\* C22: the params in a dispatch's context are that dispatch's own: before
\* the dispatch itself writes them they are the params the matcher extracts
\* from the channel, whatever earlier dispatches of the channel wrote, and a
\* match of a channel returns the params the matcher extracts from it.
C22_ParamsOwned ==
  /\ (/\ pc \in {"guards", "awaitGuard", "chain", "throwing"}
      /\ \A i \in 1..Len(trace) : trace[i].ev # "write") =>
       matched.params =
         matchSegmentsIterative(root, <<>>,
                                parseChannel(delimiter, call.channel)).params
  /\ \A c \in DispatchChannels :
       match(Self, c).result # <<>> =>
         match(Self, c).result[1].params =
           matchSegmentsIterative(root, <<>>,
                                  parseChannel(delimiter, c)).params

\* C23: has(c) is true exactly when the matcher resolves c to a registered
\* endpoint, whether on or a verb method registered it; so has(c) is true
\* whenever some verb's controller lookup for c succeeds.
C23_HasFindsEndpoints ==
  \A c \in Channels :
    /\ has(Self, c).result =
         (/\ matchSegmentsIterative(root, <<>>,
                                    parseChannel(delimiter, c)).found
          /\ root[matchSegmentsIterative(
                    root, <<>>, parseChannel(delimiter, c)).node].isEndpoint)
    /\ (\E m \in HttpMethods : matchController(Self, c, m) # <<>>) =>
         has(Self, c).result

\* ------------------------------------------------------------------------
\* EventClient.request: interceptors, the race of the adapter call with the
\* timeout and the abort signal, and the router's execute behind the default
\* adapter.  The response's metadata and duration are left out; the timeout
\* is always a finite number (`config?.timeout || this.config.timeout`, the
\* client's being `config.timeout || 30000`).
\* ------------------------------------------------------------------------
\* `${this.config.baseChannel}:${channel}`, or channel without a base channel
buildChannel(base, channel) ==
  IF base = <<>> THEN channel ELSE base \o <<":">> \o channel

\* the id generateUUID returns
generateUUID == "generated-uuid"

\* an Error without the ClientError fields: one an interceptor throws, or the
\* one the adapter's promise rejects with
ThrownError(message) ==
  [message |-> message, code |-> None, channel |-> <<>>, traceId |-> None]

TimeoutError_Aborted(channel, id) ==
  [message |-> "Request timeout", code |-> "ABORTED", channel |-> channel,
   traceId |-> id]

TimeoutError_Uncoded(channel, id) ==
  [message |-> "Request timeout", code |-> None, channel |-> channel,
   traceId |-> id]

\* the error of the setTimeout callback
TimeoutError(channel, id) ==
  [message |-> "Request timeout", code |-> "TIMEOUT", channel |-> channel,
   traceId |-> id]

\* the error of the abort listener
AbortError(channel, id) ==
  [message |-> "Request aborted", code |-> "ABORTED", channel |-> channel,
   traceId |-> id]

ClientEvent(ev, id, error) == [ev |-> ev, id |-> id, error |-> error]

NextInterceptor_Reversed(list, index) == list[Len(list) - index]

\* the interceptor the running `for (const interceptor of ...)` loop takes
NextInterceptor(list, index) == list[index + 1]

Racing_Throughout(position) == position \notin {"idle", "requestInterceptors"}

\* `await Promise.race(...)` has not settled yet: the first of the raced
\* promises to settle resumes the request, the others settle unobserved
Racing(position) == position = "racing"

\* the request actions leave the router, its history, the client's fields
\* and the publish call alone
ClientOnly ==
  UNCHANGED <<routerVars, returned, onRegistered, merged, opCount, simpleLRU,
              lruOp, touched, regLog, clientFields, publishVars, matcherVars,
              adapterVars>>

\* the catch block up to the error interceptors' loop
EnterCatch(error) ==
  /\ clientError' =
       [error EXCEPT
          !.channel = IF error.channel = <<>>
                      THEN buildChannel(baseChannel, mergedConfig.channel)
                      ELSE error.channel,
          !.traceId = traceId]
  /\ cpc' = "errorInterceptors"
  /\ interceptorIndex' = 0

\* the race settles: fulfilled with the adapter's result, or rejected
RaceSettles(fulfilled, data, error) ==
  IF fulfilled
  THEN /\ response' = [data |-> data,
                       channel |-> buildChannel(baseChannel,
                                                mergedConfig.channel),
                       traceId |-> traceId]
       /\ cpc' = "responseInterceptors"
       /\ interceptorIndex' = 0
       /\ UNCHANGED clientError
  ELSE /\ EnterCatch(error)
       /\ UNCHANGED response

\* the channels passed to request: a:b, whole or after the base channel a
RequestChannels == {IF baseChannel = <<>> THEN T_a_b ELSE <<"b">>}

\* request(method, channel, data, config) up to the request interceptors
Request ==
  \E method \in {"GET", "POST"}, channel \in RequestChannels,
     supplied \in {<<>>, <<"caller-trace">>},
     given \in {"none", "idle", "aborted"} :
    /\ cpc = "idle"
    /\ requested' = [method |-> method, channel |-> channel,
                     traceId |-> supplied, signal |-> given]
    /\ traceId' = IF supplied # <<>> THEN supplied[1] ELSE generateUUID
    /\ mergedConfig' = [channel |-> channel,
                        metadata |-> [traceId |-> traceId'],
                        signal |-> given # "none"]
    /\ signal' = given
    /\ cpc' = "requestInterceptors"
    /\ interceptorIndex' = 0
    /\ UNCHANGED <<listening, timer, delivered, response, clientError,
                   requestOutcome, clientLog>>
    /\ UNCHANGED dispatchVars
    /\ ClientOnly

\* `mergedConfig = await interceptor(mergedConfig)`: rPass returns the config
\* it is given, rThrow throws
RequestInterceptorStep ==
  /\ cpc = "requestInterceptors"
  /\ interceptorIndex < Len(requestInterceptors)
  /\ IF NextInterceptor(requestInterceptors, interceptorIndex) = "rThrow"
     THEN EnterCatch(ThrownError("thrown by rThrow"))
     ELSE /\ interceptorIndex' = interceptorIndex + 1
          /\ UNCHANGED <<cpc, clientError>>
  /\ UNCHANGED <<requested, traceId, mergedConfig, signal, listening, timer,
                 delivered, response, requestOutcome, clientLog>>
  /\ UNCHANGED dispatchVars
  /\ ClientOnly

\* after the request interceptors: the timer is set, the abort listener added
\* when a signal is given, and the adapter called; the default adapter calls
\* router.execute
CallAdapter ==
  /\ cpc = "requestInterceptors"
  /\ interceptorIndex = Len(requestInterceptors)
  /\ timer' = "armed"
  /\ listening' = mergedConfig.signal
  /\ cpc' = "racing"
  /\ clientLog' =
       Append(clientLog,
              ClientEvent("call", requested.method,
                          [message |-> None, code |-> None,
                           channel |-> buildChannel(baseChannel,
                                                    mergedConfig.channel),
                           traceId |-> mergedConfig.metadata.traceId]))
  /\ IF adapter = "defaultAdapter"
     THEN Begin([op |-> "execute", method |-> requested.method,
                 channel |-> buildChannel(baseChannel, mergedConfig.channel),
                 valid |-> TRUE],
                matchController(Self,
                                buildChannel(baseChannel, mergedConfig.channel),
                                requested.method),
                "No controller found")
     ELSE UNCHANGED dispatchVars
  /\ UNCHANGED <<requested, traceId, mergedConfig, interceptorIndex, signal,
                 delivered, response, clientError, requestOutcome>>
  /\ ClientOnly

\* the promise of router.execute has settled and the adapter's promise has
\* not yet: its reactions run before any timer callback
AdapterDue ==
  /\ adapter = "defaultAdapter"
  /\ cpc \notin {"idle", "requestInterceptors"}
  /\ ~delivered
  /\ pc \in {"resolved", "rejected"}

\* the adapter's promise settles with the outcome of router.execute
AdapterSettles ==
  /\ AdapterDue
  /\ delivered' = TRUE
  /\ clientLog' = Append(clientLog,
                         ClientEvent("race", "adapter",
                                     ThrownError(outcome.error)))
  /\ IF Racing(cpc)
     THEN RaceSettles(outcome.state = "resolved", outcome.value,
                      ThrownError(outcome.error))
     ELSE UNCHANGED <<cpc, interceptorIndex, response, clientError>>
  /\ UNCHANGED <<requested, traceId, mergedConfig, signal, listening, timer,
                 requestOutcome>>
  /\ UNCHANGED dispatchVars
  /\ ClientOnly

\* the setTimeout callback runs (the timer is never cleared)
TimeoutFires ==
  /\ timer = "armed"
  /\ ~AdapterDue
  /\ timer' = "fired"
  /\ clientLog' =
       Append(clientLog,
              ClientEvent("race", "timeout",
                          TimeoutError(buildChannel(baseChannel,
                                                    mergedConfig.channel),
                                       traceId)))
  /\ IF Racing(cpc)
     THEN /\ EnterCatch(TimeoutError(buildChannel(baseChannel,
                                                  mergedConfig.channel),
                                     traceId))
          /\ UNCHANGED response
     ELSE UNCHANGED <<cpc, interceptorIndex, response, clientError>>
  /\ UNCHANGED <<requested, traceId, mergedConfig, signal, listening,
                 delivered, requestOutcome>>
  /\ UNCHANGED dispatchVars
  /\ ClientOnly

\* the caller aborts the signal: the "abort" event is dispatched to the
\* listeners registered at that moment
Abort ==
  /\ signal = "idle"
  /\ cpc # "idle"
  /\ signal' = "aborted"
  /\ clientLog' =
       Append(clientLog,
              ClientEvent("race", "abort",
                          AbortError(buildChannel(baseChannel,
                                                  mergedConfig.channel),
                                     traceId)))
  /\ IF listening /\ Racing(cpc)
     THEN /\ EnterCatch(AbortError(buildChannel(baseChannel,
                                                mergedConfig.channel),
                                   traceId))
          /\ UNCHANGED response
     ELSE UNCHANGED <<cpc, interceptorIndex, response, clientError>>
  /\ UNCHANGED <<requested, traceId, mergedConfig, listening, timer,
                 delivered, requestOutcome>>
  /\ UNCHANGED dispatchVars
  /\ ClientOnly

\* `response = await interceptor(response)` (sPass returns the response it is
\* given, sThrow throws), and `return response` after the loop
ResponseInterceptorStep ==
  /\ cpc = "responseInterceptors"
  /\ IF interceptorIndex < Len(responseInterceptors)
     THEN /\ IF NextInterceptor(responseInterceptors, interceptorIndex)
                  = "sThrow"
             THEN EnterCatch(ThrownError("thrown by sThrow"))
             ELSE /\ interceptorIndex' = interceptorIndex + 1
                  /\ UNCHANGED <<cpc, clientError>>
          /\ UNCHANGED requestOutcome
     ELSE /\ cpc' = "resolved"
          /\ requestOutcome' = [state |-> "resolved", response |-> response,
                                error |-> NoError]
          /\ UNCHANGED <<interceptorIndex, clientError>>
  /\ UNCHANGED <<requested, traceId, mergedConfig, signal, listening, timer,
                 delivered, response, clientLog>>
  /\ UNCHANGED dispatchVars
  /\ ClientOnly

\* the error an error interceptor returns: eFirst and eSecond return the one
\* they are given, eReplace a new one
ReturnedError(id, error) ==
  IF id = "eReplace"
  THEN [message |-> "replaced", code |-> "REPLACED", channel |-> <<>>,
        traceId |-> None]
  ELSE error

\* `clientError = await interceptor(clientError)` (eThrow throws, which ends
\* the request), and `throw clientError` after the loop
ErrorInterceptorStep ==
  /\ cpc = "errorInterceptors"
  /\ IF interceptorIndex < Len(errorInterceptors)
     THEN /\ clientLog' =
               Append(clientLog,
                      ClientEvent("error",
                                  NextInterceptor(errorInterceptors,
                                                  interceptorIndex),
                                  clientError))
          /\ IF NextInterceptor(errorInterceptors, interceptorIndex) = "eThrow"
             THEN /\ cpc' = "rejected"
                  /\ requestOutcome' =
                       [state |-> "rejected", response |-> NoResponse,
                        error |-> ThrownError("thrown by eThrow")]
                  /\ UNCHANGED <<interceptorIndex, clientError>>
             ELSE /\ clientError' =
                       ReturnedError(NextInterceptor(errorInterceptors,
                                                     interceptorIndex),
                                     clientError)
                  /\ interceptorIndex' = interceptorIndex + 1
                  /\ UNCHANGED <<cpc, requestOutcome>>
     ELSE /\ cpc' = "rejected"
          /\ requestOutcome' = [state |-> "rejected", response |-> NoResponse,
                                error |-> clientError]
          /\ UNCHANGED <<interceptorIndex, clientError, clientLog>>
  /\ UNCHANGED <<requested, traceId, mergedConfig, signal, listening, timer,
                 delivered, response>>
  /\ UNCHANGED dispatchVars
  /\ ClientOnly

\* the steps of the dispatch that router.execute started
Pipeline ==
  \/ (GuardCall /\ UNCHANGED ghostVars)
  \/ (GuardSettle /\ UNCHANGED ghostVars)
  \/ (StartChain /\ UNCHANGED ghostVars)
  \/ (CallNext /\ UNCHANGED ghostVars)
  \/ (Return /\ UNCHANGED ghostVars)
  \/ (Throw /\ UNCHANGED ghostVars)
  \/ (Propagate /\ UNCHANGED ghostVars)
  \/ (Catch /\ UNCHANGED ghostVars)

\* the clients requests are made on: config and interceptors registered
ClientSetups ==
  {[baseChannel |-> <<>>, adapter |-> "defaultAdapter", request |-> <<>>,
    response |-> <<>>, error |-> <<>>],
   [baseChannel |-> <<"a">>, adapter |-> "never", request |-> <<"rPass">>,
    response |-> <<>>, error |-> <<"eFirst", "eSecond">>],
   [baseChannel |-> <<>>, adapter |-> "defaultAdapter",
    request |-> <<"rPass">>, response |-> <<"sPass">>,
    error |-> <<"eFirst", "eSecond">>],
   [baseChannel |-> <<>>, adapter |-> "defaultAdapter",
    request |-> <<"rThrow">>, response |-> <<>>,
    error |-> <<"eReplace", "eSecond">>],
   [baseChannel |-> <<"a">>, adapter |-> "defaultAdapter", request |-> <<>>,
    response |-> <<"sThrow">>, error |-> <<"eFirst", "eThrow", "eSecond">>]}

InitClient ==
  /\ Holds(VerbRouter)
  /\ returned = NothingReturned
  /\ onRegistered = {}
  /\ merged = {}
  /\ opCount = 0
  /\ Idle
  /\ Untouched
  /\ \E c \in ClientSetups :
       /\ baseChannel = c.baseChannel
       /\ adapter = c.adapter
       /\ requestInterceptors = c.request
       /\ responseInterceptors = c.response
       /\ errorInterceptors = c.error
  /\ subscriptions = EmptyMap
  /\ NoRequest
  /\ NoPublish
  /\ NoMatchRun
  /\ NoAdapter

NextClient ==
  \/ Request
  \/ RequestInterceptorStep
  \/ CallAdapter
  \/ AdapterSettles
  \/ TimeoutFires
  \/ Abort
  \/ ResponseInterceptorStep
  \/ ErrorInterceptorStep
  \/ Pipeline

SpecClient == InitClient /\ [][NextClient]_vars

\* The event loop runs every callback that is due: the timer's, the
\* reactions of settled promises, and the steps of guards, middleware and
\* handlers, which are taken to settle.  The caller need not abort.
SpecClientLive ==
  /\ SpecClient
  /\ WF_vars(RequestInterceptorStep)
  /\ WF_vars(CallAdapter)
  /\ WF_vars(AdapterSettles)
  /\ WF_vars(TimeoutFires)
  /\ WF_vars(ResponseInterceptorStep)
  /\ WF_vars(ErrorInterceptorStep)
  /\ WF_vars(Pipeline)

\* ------------------------------------------------------------------------
\* Properties of client requests
\* ------------------------------------------------------------------------
\* the events of the race that happened after the adapter was called, in order
RaceAfterCall ==
  IF \A i \in 1..Len(clientLog) : clientLog[i].ev # "call" THEN <<>>
  ELSE SelectSeq(SubSeq(clientLog,
                        CHOOSE i \in 1..Len(clientLog) :
                          clientLog[i].ev = "call",
                        Len(clientLog)),
                 LAMBDA e : e.ev = "race")

\* every registered interceptor returns what it is given
PassThrough ==
  /\ \A i \in 1..Len(requestInterceptors) : requestInterceptors[i] = "rPass"
  /\ \A i \in 1..Len(responseInterceptors) : responseInterceptors[i] = "sPass"
  /\ \A i \in 1..Len(errorInterceptors) :
       errorInterceptors[i] \in {"eFirst", "eSecond"}

\* the trace id of the request: the caller's, or a generated one
RequestTrace ==
  IF requested.traceId # <<>> THEN requested.traceId[1] ELSE "generated-uuid"

FullChannel == buildChannel(baseChannel, requested.channel)

\* the rejection with a typed client error
RejectedWith(message, code) ==
  requestOutcome =
    [state |-> "rejected", response |-> NoResponse,
     error |-> [message |-> message, code |-> code, channel |-> FullChannel,
                traceId |-> RequestTrace]]

\* C24: with interceptors that return what they are given, a request whose
\* adapter was called settles with the outcome of the first event after the
\* call: the adapter's result or error, a TIMEOUT error when the timer fired
\* first, an ABORTED error when the signal was aborted first; those errors
\* carry the full channel and the request's trace id, and events that arrive
\* later leave the outcome as it is.
C24_FirstEventSettles ==
  (/\ PassThrough
   /\ cpc \in {"resolved", "rejected"}
   /\ \E i \in 1..Len(clientLog) : clientLog[i].ev = "call") =>
    /\ RaceAfterCall # <<>>
    /\ RaceAfterCall[1].id = "timeout" =>
         RejectedWith("Request timeout", "TIMEOUT")
    /\ RaceAfterCall[1].id = "abort" =>
         RejectedWith("Request aborted", "ABORTED")
    /\ RaceAfterCall[1].id = "adapter" =>
         IF outcome.state = "resolved"
         THEN requestOutcome =
                [state |-> "resolved",
                 response |-> [data |-> outcome.value,
                               channel |-> FullChannel,
                               traceId |-> RequestTrace],
                 error |-> NoError]
         ELSE RejectedWith(outcome.error, None)

\* the timer fired first and the adapter settled afterwards
C24_Witness ==
  /\ PassThrough
  /\ cpc = "rejected"
  /\ Len(RaceAfterCall) >= 2
  /\ RaceAfterCall[1].id = "timeout"
  /\ \E i \in 2..Len(RaceAfterCall) : RaceAfterCall[i].id = "adapter"
  /\ requestOutcome.error.code = "TIMEOUT"

\* C25: a request made with a signal that is already aborted is cancelled:
\* it does not resolve, and once the adapter was called it rejects with an
\* ABORTED error only.
C25_AbortedAtCall ==
  (requested.signal = "aborted" /\ PassThrough) =>
    /\ cpc # "resolved"
    /\ cpc = "rejected" => requestOutcome.error.code = "ABORTED"

\* C26: a request that waits on an adapter whose promise never settles does
\* not stay pending and does not resolve: unless the caller aborts it, it
\* rejects with a TIMEOUT error.
C26_TimesOut ==
  /\ [](adapter = "never" => cpc # "resolved")
  /\ (cpc = "racing" /\ adapter = "never" /\ PassThrough)
       ~> (\/ RejectedWith("Request timeout", "TIMEOUT")
           \/ signal = "aborted")

\* the request on the adapter that never settles was rejected by the timer,
\* no signal given
C26_Witness ==
  /\ adapter = "never"
  /\ requested.signal = "none"
  /\ cpc = "rejected"
  /\ requestOutcome.error.code = "TIMEOUT"
  /\ \A i \in 1..Len(RaceAfterCall) : RaceAfterCall[i].id = "timeout"

\* C27: a request has one trace id, the caller's or a generated one, and
\* that id is in the metadata the adapter is handed, in the response the
\* request resolves with, and in the error it rejects with, whatever failed.
C27_OneTraceId ==
  /\ \A i \in 1..Len(clientLog) :
       clientLog[i].ev = "call" => clientLog[i].error.traceId = RequestTrace
  /\ cpc = "resolved" => requestOutcome.response.traceId = RequestTrace
  /\ cpc = "rejected" => requestOutcome.error.traceId = RequestTrace

\* the invocations of error interceptors made so far, in order
ErrorInvocations == SelectSeq(clientLog, LAMBDA e : e.ev = "error")

\* what the invoked interceptor e gave back, unless it threw
GaveBack(e) ==
  IF e.id = "eReplace"
  THEN [message |-> "replaced", code |-> "REPLACED", channel |-> <<>>,
        traceId |-> None]
  ELSE e.error

\* the interceptors invoked are the first registered ones, in registration
\* order; the first is given the caught error with channel and trace id,
\* each later one what the one before gave back
ErrorsChained ==
  /\ Len(ErrorInvocations) <= Len(errorInterceptors)
  /\ \A i \in 1..Len(ErrorInvocations) :
       /\ ErrorInvocations[i].id = errorInterceptors[i]
       /\ i = 1 => /\ ErrorInvocations[i].error.traceId = RequestTrace
                   /\ ErrorInvocations[i].error.channel # <<>>
       /\ i > 1 => ErrorInvocations[i].error = GaveBack(ErrorInvocations[i - 1])

\* a request that failed does not resolve
FailureStays == cpc = "resolved" => clientError = NoError

\* C28 as stated: a failed request passes its error through all registered
\* error interceptors in registration order and rejects with what the last
\* one returned; it never resolves.
C28_AllErrorInterceptors ==
  /\ FailureStays
  /\ cpc = "rejected" =>
       /\ ErrorsChained
       /\ Len(ErrorInvocations) = Len(errorInterceptors)
       /\ requestOutcome.state = "rejected"
       /\ requestOutcome.error =
            IF ErrorInvocations = <<>> THEN clientError
            ELSE GaveBack(ErrorInvocations[Len(ErrorInvocations)])

\* C28 amended: a failed request passes its error through the registered
\* error interceptors in registration order until one of them throws; it
\* rejects with what the throwing interceptor threw, the later interceptors
\* not being invoked, and otherwise with what the last one returned; it never
\* resolves.
C28_ErrorChainUntilThrow ==
  /\ FailureStays
  /\ cpc = "rejected" =>
       /\ ErrorsChained
       /\ requestOutcome.state = "rejected"
       /\ \A i \in 1..(Len(ErrorInvocations) - 1) :
            ErrorInvocations[i].id # "eThrow"
       /\ IF /\ ErrorInvocations # <<>>
             /\ ErrorInvocations[Len(ErrorInvocations)].id = "eThrow"
          THEN requestOutcome.error =
                 [message |-> "thrown by eThrow", code |-> None,
                  channel |-> <<>>, traceId |-> None]
          ELSE /\ Len(ErrorInvocations) = Len(errorInterceptors)
               /\ requestOutcome.error =
                    IF ErrorInvocations = <<>> THEN clientError
                    ELSE GaveBack(ErrorInvocations[Len(ErrorInvocations)])

\* the second of three error interceptors threw: the request rejected with
\* its error and the third was not invoked
C28_Witness ==
  /\ cpc = "rejected"
  /\ Len(errorInterceptors) = 3
  /\ Len(ErrorInvocations) = 2
  /\ ErrorInvocations[2].id = "eThrow"
  /\ requestOutcome.error.message = "thrown by eThrow"

\* C29: a timeout or abort on the client cancels nothing on the serving
\* side: when a request on the default adapter has rejected with TIMEOUT or
\* ABORTED while the dispatch it started is still running, the dispatch goes
\* on through its guards, middleware and handler until it settles, its late
\* outcome reaches the adapter's promise, and the request's outcome, once
\* settled, never changes.
C29_ServerSideGoesOn ==
  /\ (/\ adapter = "defaultAdapter"
      /\ cpc = "rejected"
      /\ requestOutcome.error.code \in {"TIMEOUT", "ABORTED"}
      /\ pc \in {"guards", "awaitGuard", "chain", "throwing"})
       ~> (pc \in {"resolved", "rejected"} /\ delivered)
  /\ [][requestOutcome.state # "pending" =>
          /\ requestOutcome' = requestOutcome
          /\ cpc' = cpc]_vars

\* the request was rejected by the timer while a guard of the dispatch was
\* still running
C29_Witness ==
  /\ adapter = "defaultAdapter"
  /\ cpc = "rejected"
  /\ requestOutcome.error.code = "TIMEOUT"
  /\ pc = "awaitGuard"

\* ------------------------------------------------------------------------
\* EventClient.subscribe and publish.  A callback is named after what it
\* does when called: cbVoid returns undefined, cbAsync and cbSlow return a
\* promise that is fulfilled later, cbRejects one that is rejected later,
\* cbThrows throws.
\* ------------------------------------------------------------------------
Callbacks == {"cbVoid", "cbAsync", "cbSlow", "cbRejects", "cbThrows"}

MaxSubs == 3

\* subscriptions.get(fullChannel), as the Set's members in insertion order
CallbacksOf(subs, fullChannel) ==
  IF fullChannel \in DOMAIN subs THEN subs[fullChannel] ELSE <<>>

\* subscribe(channel, callback); no subscription is made while a publish is
\* in flight
Subscribe ==
  \E channel \in DispatchChannels, callback \in Callbacks :
    /\ published.state = "none"
    /\ Len(handles) < MaxSubs
    /\ subscriptions' =
         [c \in DOMAIN subscriptions \cup {buildChannel(baseChannel, channel)}
            |-> IF c # buildChannel(baseChannel, channel) THEN subscriptions[c]
                ELSE IF \E i \in 1..Len(CallbacksOf(subscriptions, c)) :
                          CallbacksOf(subscriptions, c)[i] = callback
                THEN subscriptions[c]
                ELSE Append(CallbacksOf(subscriptions, c), callback)]
    /\ handles' = Append(handles,
                         [channel |-> buildChannel(baseChannel, channel),
                          callback |-> callback, state |-> "live"])
    /\ UNCHANGED <<published, clientFields, requestVars, matcherVars,
                   adapterVars>>
    /\ UNCHANGED <<routerVars, dispatchVars, returned, onRegistered, merged,
                   opCount, simpleLRU, lruOp, touched, regLog>>

\* `Array.from(callbacks).map((callback) => callback(data, fullChannel))`:
\* the callbacks called, which are those up to the first that throws
MapCalls(callbacks) ==
  IF \E i \in 1..Len(callbacks) : callbacks[i] = "cbThrows"
  THEN SubSeq(callbacks, 1,
              CHOOSE i \in 1..Len(callbacks) :
                /\ callbacks[i] = "cbThrows"
                /\ \A j \in 1..(i - 1) : callbacks[j] # "cbThrows")
  ELSE callbacks

\* the called callbacks whose promise is pending
PendingOf(called) ==
  {called[i] : i \in 1..Len(called)} \cap {"cbAsync", "cbSlow", "cbRejects"}

\* the publish call after `Array.from(callbacks).map(...)`: a throw inside
\* map rejects publish at once; Promise.all of no pending promise is
\* fulfilled
PublishCall(fullChannel, callbacks) ==
  [state |-> IF \E i \in 1..Len(callbacks) : callbacks[i] = "cbThrows"
             THEN "rejected"
             ELSE IF PendingOf(callbacks) = {} THEN "resolved"
             ELSE "awaiting",
   channel |-> fullChannel,
   callbacks |-> callbacks,
   invoked |-> [i \in 1..Len(MapCalls(callbacks)) |->
                  [callback |-> callbacks[i], data |-> "d",
                   channel |-> fullChannel]],
   pending |-> PendingOf(MapCalls(callbacks))]

\* publish(channel, data) up to `await Promise.all(...)`
Publish ==
  \E channel \in DispatchChannels :
    /\ published.state = "none"
    /\ published' =
         PublishCall(buildChannel(baseChannel, channel),
                     CallbacksOf(subscriptions,
                                 buildChannel(baseChannel, channel)))
    /\ UNCHANGED <<subscriptions, handles, clientFields, requestVars,
                   matcherVars, adapterVars>>
    /\ UNCHANGED <<routerVars, dispatchVars, returned, onRegistered, merged,
                   opCount, simpleLRU, lruOp, touched, regLog>>

\* the promise a callback returned settles; Promise.all rejects with the
\* first rejection and is fulfilled when every promise is
CallbackSettles ==
  \E callback \in published.pending :
    /\ published' =
         [published EXCEPT
            !.pending = @ \ {callback},
            !.state = IF @ # "awaiting" THEN @
                      ELSE IF callback = "cbRejects" THEN "rejected"
                      ELSE IF published.pending = {callback} THEN "resolved"
                      ELSE "awaiting"]
    /\ UNCHANGED <<subscriptions, handles, clientFields, requestVars,
                   matcherVars, adapterVars>>
    /\ UNCHANGED <<routerVars, dispatchVars, returned, onRegistered, merged,
                   opCount, simpleLRU, lruOp, touched, regLog>>

\* the body of a handle's unsubscribe closure: the callback leaves the
\* channel's Set, and a Set left empty leaves the map
RemoveCallback_KeepsEmpty(subs, fullChannel, callback) ==
  IF fullChannel \notin DOMAIN subs THEN subs
  ELSE [subs EXCEPT ![fullChannel] =
          SelectSeq(@, LAMBDA member : member # callback)]

RemoveCallback(subs, fullChannel, callback) ==
  IF fullChannel \notin DOMAIN subs THEN subs
  ELSE IF SelectSeq(subs[fullChannel], LAMBDA member : member # callback)
            = <<>>
  THEN [c \in DOMAIN subs \ {fullChannel} |-> subs[c]]
  ELSE [subs EXCEPT ![fullChannel] =
          SelectSeq(@, LAMBDA member : member # callback)]

\* what is left unchanged by an operation on the subscriptions
SubscriptionsOnly ==
  /\ UNCHANGED <<published, clientFields, requestVars, matcherVars,
                 adapterVars>>
  /\ UNCHANGED <<routerVars, dispatchVars, returned, onRegistered, merged,
                 opCount, simpleLRU, lruOp, touched, regLog>>

\* handle.unsubscribe(), of any handle returned so far, any number of times
HandleUnsubscribe ==
  \E h \in 1..Len(handles) :
    /\ published.state = "none"
    /\ subscriptions' = RemoveCallback(subscriptions, handles[h].channel,
                                       handles[h].callback)
    /\ handles' = [handles EXCEPT ![h].state = "unsubscribed"]
    /\ SubscriptionsOnly

\* client.unsubscribe(channel)
Unsubscribe ==
  \E channel \in DispatchChannels :
    /\ published.state = "none"
    /\ subscriptions' =
         [c \in DOMAIN subscriptions \ {buildChannel(baseChannel, channel)}
            |-> subscriptions[c]]
    /\ handles' =
         [h \in 1..Len(handles) |->
            IF /\ handles[h].channel = buildChannel(baseChannel, channel)
               /\ handles[h].state = "live"
            THEN [handles[h] EXCEPT !.state = "revoked"]
            ELSE handles[h]]
    /\ SubscriptionsOnly

\* client.unsubscribeAll()
UnsubscribeAll ==
  /\ published.state = "none"
  /\ subscriptions' = EmptyMap
  /\ handles' =
       [h \in 1..Len(handles) |->
          IF handles[h].state = "live"
          THEN [handles[h] EXCEPT !.state = "revoked"]
          ELSE handles[h]]
  /\ SubscriptionsOnly

NextPublish ==
  \/ Subscribe
  \/ HandleUnsubscribe
  \/ Unsubscribe
  \/ UnsubscribeAll
  \/ Publish
  \/ CallbackSettles

SpecPublish == Init /\ [][NextPublish]_vars

\* C30: publish calls every callback registered for the full channel once,
\* with the data and the full channel, also when one of them throws or
\* returns a promise that rejects, and its promise settles only when every
\* callback it called has settled.
C30_PublishCallsAll ==
  published.state # "none" =>
    /\ Len(published.invoked) = Len(published.callbacks)
    /\ {published.invoked[i].callback : i \in 1..Len(published.invoked)} =
         {published.callbacks[i] : i \in 1..Len(published.callbacks)}
    /\ \A i \in 1..Len(published.invoked) :
         /\ published.invoked[i].data = "d"
         /\ published.invoked[i].channel = published.channel
    /\ published.state \in {"resolved", "rejected"} => published.pending = {}

\* C31: after any sequence of subscribe, handle.unsubscribe, unsubscribe(channel)
\* and unsubscribeAll calls on an EventClient, the subscriptions map holds no
\* channel that is mapped to an empty callback set.
C31_NoEmptySets ==
  \A fullChannel \in DOMAIN subscriptions : subscriptions[fullChannel] # <<>>

\* a handle's unsubscribe has removed the last callback of its channel
C31_Witness ==
  \E h \in 1..Len(handles) :
    /\ handles[h].state = "unsubscribed"
    /\ handles[h].channel \notin DOMAIN subscriptions
    /\ DOMAIN subscriptions # {}

\* C36: while a handle returned by subscribe(c, cb) has not been unsubscribed
\* itself and neither unsubscribe(c) nor unsubscribeAll() has been called
\* since, every publish(c, d) invokes cb, whatever was unsubscribed through
\* other handles, including one for the same callback on the same channel.
C36_LiveHandleIsCalled ==
  /\ published.state # "none"
  /\ \A i \in 1..Len(published.callbacks) :
       published.callbacks[i] # "cbThrows"
  => \A h \in 1..Len(handles) :
       /\ handles[h].state = "live"
       /\ handles[h].channel = published.channel
       => \E i \in 1..Len(published.invoked) :
            published.invoked[i].callback = handles[h].callback

\* ------------------------------------------------------------------------
\* The recursive matcher of the earlier router version
\* ------------------------------------------------------------------------
\* the earlier extractParamsFromSegment: `params[param.name] = match[i + 1]`,
\* the captured text as it is
extractParamsFromSegment_Uncoerced(segment, pattern) ==
  IF pattern.regex = <<>> \/ RegexExecFrom(pattern.regex, 1, segment, 1) = <<>>
  THEN <<>>
  ELSE <<[name \in {pattern.params[i].name : i \in 1..Len(pattern.params)} |->
            StringValue(RegexExecFrom(pattern.regex, 1, segment, 1)[1][
              CHOOSE j \in 1..Len(pattern.params) :
                /\ pattern.params[j].name = name
                /\ \A l \in 1..Len(pattern.params) :
                     pattern.params[l].name = name => l <= j])]>>

\* the parametric block up to `if (matchFound)`: <<>> or <<paramsCopy>>
ParamsCopy(child, segment, params) ==
  IF child.pattern # NoPattern
  THEN AssignExtracted(params,
                       extractParamsFromSegment_Uncoerced(segment,
                                                          child.pattern))
  ELSE IF child.paramName # <<>>
  THEN <<ObjectAssign(params,
                      [k \in {child.paramName} |-> StringValue(segment)])>>
  ELSE <<>>

RECURSIVE matchSegments(_, _, _, _, _)
\* matchSegments(node, segments, index, params): the node returned (found is
\* FALSE for null) and the caller's params object after the call
matchSegments(trie, node, segments, index, params) ==
  IF index = Len(segments)
  THEN IF trie[node].isEndpoint
       THEN [found |-> TRUE, node |-> node, params |-> params]
       ELSE [found |-> FALSE, node |-> <<>>, params |-> params]
  ELSE LET segment == segments[index + 1]
           staticResult ==
             IF HasChild(trie, node, StaticEdge(segment))
             THEN matchSegments(trie, Append(node, StaticEdge(segment)),
                                segments, index + 1, params)
             ELSE [found |-> FALSE, node |-> <<>>, params |-> params]
           paramsCopy ==
             IF HasChild(trie, node, ParamEdge)
             THEN ParamsCopy(trie[Append(node, ParamEdge)], segment, params)
             ELSE <<>>
           paramResult ==
             IF paramsCopy # <<>>
             THEN matchSegments(trie, Append(node, ParamEdge), segments,
                                index + 1, paramsCopy[1])
             ELSE [found |-> FALSE, node |-> <<>>, params |-> params]
       IN IF staticResult.found THEN staticResult
          ELSE IF paramResult.found
          THEN [paramResult EXCEPT
                  !.params = ObjectAssign(params, paramResult.params)]
          ELSE IF /\ HasChild(trie, node, WildcardEdge)
                  /\ trie[Append(node, WildcardEdge)].isEndpoint
          THEN [found |-> TRUE, node |-> Append(node, WildcardEdge),
                params |-> params]
          ELSE [found |-> FALSE, node |-> <<>>, params |-> params]

\* C33: on every trie and channel the iterative matcher returns what the
\* recursive matchSegments of the earlier version returns: the same endpoint
\* node or null, and the same parameter names with the same values up to
\* coercion.
C33_SameAsRecursive ==
  \A c \in Channels :
    LET segments == parseChannel(delimiter, c)
        iterative == matchSegmentsIterative(root, <<>>, segments)
        recursive == matchSegments(root, <<>>, segments, 0, EmptyMap)
    IN /\ iterative.found = recursive.found
       /\ iterative.found =>
            /\ iterative.node = recursive.node
            /\ DOMAIN iterative.params = DOMAIN recursive.params
            /\ \A name \in DOMAIN iterative.params :
                 \/ iterative.params[name] = recursive.params[name]
                 \/ iterative.params[name].kind # "string"

RECURSIVE PathCaptures(_, _, _, _)
\* the captures of the parametric nodes among the first n nodes of the path
\* to node, each taken from the segment its node consumed, in path order
PathCaptures(trie, node, segments, n) ==
  IF n = 0 THEN EmptyMap
  ELSE IF node[n] # ParamEdge
  THEN PathCaptures(trie, node, segments, n - 1)
  ELSE ObjectAssign(
         PathCaptures(trie, node, segments, n - 1),
         IF trie[SubSeq(node, 1, n)].pattern # NoPattern
         THEN extractParamsFromSegment(
                segments[n], trie[SubSeq(node, 1, n)].pattern)[1]
         ELSE [k \in {trie[SubSeq(node, 1, n)].paramName} |->
                 StringValue(segments[n])])

ParamChannels == Channels \cup WildcardChannels

\* C34: the params of a successful match are exactly the captures of the
\* parametric nodes on the accepted path; captures made on a branch that was
\* abandoned do not appear, and a failed match leaves the params empty.
C34_ParamsOfAcceptedPath ==
  \A c \in ParamChannels :
    LET segments == parseChannel(delimiter, c)
        r == matchSegmentsIterative(root, <<>>, segments)
    IN IF r.found
       THEN r.params = PathCaptures(root, r.node, segments, Len(r.node))
       ELSE r.params = EmptyMap

\* a:b:z was captured by the parametric child of a, that branch was
\* abandoned, and the match is the wildcard endpoint with no params
C34_Witness ==
  /\ HasChild(root, <<StaticEdge(<<"a">>)>>, ParamEdge)
  /\ HasChild(root, <<StaticEdge(<<"a">>)>>, StaticEdge(<<"b">>))
  /\ ParamChildMatch(root[<<StaticEdge(<<"a">>), ParamEdge>>], <<"b">>,
                     EmptyMap) # <<>>
  /\ matchSegmentsIterative(
       root, <<>>, parseChannel(delimiter, <<"a", ":", "b", ":", "z">>)) =
       [found |-> TRUE, node |-> <<StaticEdge(<<"a">>), WildcardEdge>>,
        params |-> EmptyMap]

\* C37: a.merge(b, prefix) appends b's global middleware and guards to a's
\* global lists, so that they are part of the guards and middleware of the
\* dispatch of every route of a, also of routes outside the prefix, and
\* merging the same router a second time appends them a second time.
C37_MergeAppendsGlobals ==
  \A m \in Merges :
    LET other == SubRouter(m.other)
        once == merge(Self, other, m.prefix)
        twice == merge(once, other, m.prefix)
    IN /\ once.globalMiddleware = globalMiddleware \o other.globalMiddleware
       /\ once.globalGuards = globalGuards \o other.globalGuards
       /\ twice.globalMiddleware =
            globalMiddleware \o other.globalMiddleware
              \o other.globalMiddleware
       /\ twice.globalGuards =
            globalGuards \o other.globalGuards \o other.globalGuards
       /\ \A c \in Channels :
            match(once, c).result # <<>> =>
              /\ AllGuards(once, match(once, c).result[1]) =
                   globalGuards \o other.globalGuards
                     \o match(once, c).result[1].guards
              /\ AllMiddleware(once, match(once, c).result[1]) =
                   globalMiddleware \o other.globalMiddleware
                     \o match(once, c).result[1].middleware

\* SubGlobals was merged twice under user, and a:b, a route outside that
\* prefix, is dispatched with the merged guard and middleware twice
C37_Witness ==
  /\ [other |-> "SubGlobals", prefix |-> W_user] \in merged
  /\ globalGuards = <<"gS", "gS">>
  /\ globalMiddleware = <<"mS", "mS">>
  /\ match(Self, T_a_b).result # <<>>
  /\ AllGuards(Self, match(Self, T_a_b).result[1]) = <<"gS", "gS">>
  /\ AllMiddleware(Self, match(Self, T_a_b).result[1]) = <<"mS", "mS">>

\* the endpoint of a:b
Node_a_b == <<StaticEdge(<<"a">>), StaticEdge(<<"b">>)>>

\* the guards and middleware of a:b's node before the last call of regLog
ListsBefore ==
  IF Node_a_b \in DOMAIN Replay(regLog, Len(regLog) - 1).root
  THEN [guards |-> Replay(regLog, Len(regLog) - 1).root[Node_a_b].guards,
        middleware |->
          Replay(regLog, Len(regLog) - 1).root[Node_a_b].middleware]
  ELSE [guards |-> <<>>, middleware |-> <<>>]

\* C38: a verb registration appends its guards and middleware to the lists of
\* the template's endpoint, so they are evaluated for every verb and for emit
\* on that template; on replaces the lists with those of its own config.
\* After get(t, ctrl, {guards: [g]}) followed by on(t, h), execute('GET', t)
\* no longer evaluates g.
C38_VerbAppendsOnReplaces ==
  (Len(regLog) >= 1 /\ regLog[Len(regLog)].channel = T_a_b) =>
    /\ regLog[Len(regLog)].op = "on" =>
         /\ root[Node_a_b].guards = regLog[Len(regLog)].config.guards
         /\ root[Node_a_b].middleware = regLog[Len(regLog)].config.middleware
    /\ regLog[Len(regLog)].op # "on" =>
         /\ root[Node_a_b].guards =
              ListsBefore.guards \o regLog[Len(regLog)].config.guards
         /\ root[Node_a_b].middleware =
              ListsBefore.middleware \o regLog[Len(regLog)].config.middleware
         /\ \A verb \in DOMAIN root[Node_a_b].controllers :
              AllGuards(Self, matchController(Self, T_a_b, verb)[1]) =
                globalGuards \o ListsBefore.guards
                  \o regLog[Len(regLog)].config.guards
         /\ match(Self, T_a_b).result # <<>> =>
              AllGuards(Self, RouteOfMatch(match(Self, T_a_b).result)[1]) =
                globalGuards \o ListsBefore.guards
                  \o regLog[Len(regLog)].config.guards
    /\ (/\ Len(regLog) >= 2
        /\ regLog[Len(regLog)].op = "on"
        /\ regLog[Len(regLog)].config = NoConfig
        /\ regLog[Len(regLog) - 1] =
             [op |-> "verb", channel |-> T_a_b, method |-> "GET",
              handler |-> "ctrl", config |-> Config1]) =>
         /\ matchController(Self, T_a_b, "GET") # <<>>
         /\ AllGuards(Self, matchController(Self, T_a_b, "GET")[1]) = <<>>

\* get(a:b, ctrl, {guards: [gC]}) twice and then on(a:b, h1): the guard
\* appended twice is gone
C38_Witness ==
  /\ Len(regLog) = 3
  /\ regLog[1] = regLog[2]
  /\ regLog[2] = [op |-> "verb", channel |-> T_a_b, method |-> "GET",
                  handler |-> "ctrl", config |-> Config1]
  /\ regLog[3].op = "on"
  /\ regLog[3].channel = T_a_b
  /\ ListsBefore.guards = <<"gC", "gC">>
  /\ matchController(Self, T_a_b, "GET") # <<>>
  /\ matchController(Self, T_a_b, "GET")[1].guards = <<>>

\* ------------------------------------------------------------------------
\* matchSegmentsIterative, one loop iteration at a time
\* ------------------------------------------------------------------------
MaxAttempts == 4

\* the phase-0 block leaving the frame's phase as it is
StaticPhase_KeepsPhase(trie, segment, st) ==
  IF HasChild(trie, st[Len(st)].node, StaticEdge(segment))
  THEN [stack |-> Append(st, Frame(Append(st[Len(st)].node,
                                          StaticEdge(segment)),
                                   st[Len(st)].index + 1,
                                   st[Len(st)].paramsSnapshot, 0)),
        returned |-> <<>>]
  ELSE [stack |-> Pop(st), returned |-> <<>>]

\* `if (phase === 0)`: current.phase = 1, then the static child's frame is
\* pushed; without a static child the iteration falls through the tests of
\* the value of `phase` read before, to stack.pop()
StaticPhase(trie, segment, st) ==
  IF HasChild(trie, st[Len(st)].node, StaticEdge(segment))
  THEN [stack |-> Append([st EXCEPT ![Len(st)].phase = 1],
                         Frame(Append(st[Len(st)].node, StaticEdge(segment)),
                               st[Len(st)].index + 1,
                               st[Len(st)].paramsSnapshot, 0)),
        returned |-> <<>>]
  ELSE [stack |-> Pop(st), returned |-> <<>>]

\* `if (phase === 1)`: current.phase = 2, then the parametric child's frame
\* is pushed when matchFound, else stack.pop()
ParamPush(st, m) ==
  IF m # <<>>
  THEN [stack |-> Append([st EXCEPT ![Len(st)].phase = 2],
                         Frame(Append(st[Len(st)].node, ParamEdge),
                               st[Len(st)].index + 1, m[1], 0)),
        returned |-> <<>>]
  ELSE [stack |-> Pop(st), returned |-> <<>>]

\* the body of `while (stack.length > 0)` on a stack that is not empty: the
\* stack it leaves, and <<node and params>> when it returns
LoopIteration(trie, segments, st) ==
  IF st[Len(st)].index = Len(segments)
  THEN IF trie[st[Len(st)].node].isEndpoint
       THEN [stack |-> st,
             returned |-> <<[found |-> TRUE, node |-> st[Len(st)].node,
                             params |-> st[Len(st)].paramsSnapshot]>>]
       ELSE [stack |-> Pop(st), returned |-> <<>>]
  ELSE IF st[Len(st)].phase = 0
  THEN StaticPhase(trie, segments[st[Len(st)].index + 1], st)
  ELSE IF st[Len(st)].phase = 1
  THEN ParamPush(st,
                 IF HasChild(trie, st[Len(st)].node, ParamEdge)
                 THEN ParamChildMatch(
                        trie[Append(st[Len(st)].node, ParamEdge)],
                        segments[st[Len(st)].index + 1],
                        st[Len(st)].paramsSnapshot)
                 ELSE <<>>)
  ELSE IF st[Len(st)].phase = 2 /\ WildcardMatches(trie, st[Len(st)].node)
  THEN [stack |-> [st EXCEPT ![Len(st)].phase = 3],
        returned |-> <<[found |-> TRUE,
                        node |-> Append(st[Len(st)].node, WildcardEdge),
                        params |-> st[Len(st)].paramsSnapshot]>>]
  ELSE [stack |-> Pop(st), returned |-> <<>>]

\* what a step of the matcher leaves unchanged
MatcherOnly ==
  /\ UNCHANGED <<routerVars, dispatchVars, returned, onRegistered, merged,
                 opCount, simpleLRU, lruOp, touched, regLog>>
  /\ UNCHANGED <<clientFields, requestVars, publishVars, adapterVars>>

MatchChannels ==
  Channels \cup {<<"a">>, <<"a", ":", "b", ":", "z">>}

\* matchSegmentsIterative(this.root, segments, params) is called:
\* `stack.push({ node: root, index: 0, paramsSnapshot: {}, phase: 0 })`
StartMatch ==
  \E channel \in MatchChannels :
    /\ matchRun.state = "none"
    /\ frames' = <<Frame(<<>>, 0, EmptyMap, 0)>>
    /\ attempts' = <<0>>
    /\ matchRun' = [state |-> "running",
                    segments |-> parseChannel(delimiter, channel),
                    result |-> NoNode]
    /\ MatcherOnly

\* one iteration of the loop; a child attempt is counted for the frame on
\* top when the iteration reaches one of its three phase blocks
MatchIteration ==
  /\ matchRun.state = "running"
  /\ frames # <<>>
  /\ attempts[Len(frames)] < MaxAttempts
  /\ frames' = LoopIteration(root, matchRun.segments, frames).stack
  /\ attempts' =
       IF Len(frames') < Len(frames) THEN Pop(attempts)
       ELSE IF Len(frames') > Len(frames)
       THEN Append([attempts EXCEPT ![Len(frames)] = @ + 1], 0)
       ELSE IF frames[Len(frames)].index = Len(matchRun.segments)
       THEN attempts
       ELSE [attempts EXCEPT ![Len(frames)] = @ + 1]
  /\ matchRun' =
       IF LoopIteration(root, matchRun.segments, frames).returned = <<>>
       THEN matchRun
       ELSE [matchRun EXCEPT
               !.state = "done",
               !.result =
                 LoopIteration(root, matchRun.segments, frames).returned[1]]
  /\ MatcherOnly

\* the loop ends on the empty stack: `return null`
MatchReturnsNull ==
  /\ matchRun.state = "running"
  /\ frames = <<>>
  /\ matchRun' = [matchRun EXCEPT !.state = "done", !.result = NoNode]
  /\ UNCHANGED <<frames, attempts>>
  /\ MatcherOnly

MatchTemplates == Templates \cup {T_a_y, T_a_star_b}

\* a router on which three templates were registered
InitMatch ==
  /\ \E t1 \in MatchTemplates, t2 \in MatchTemplates, t3 \in MatchTemplates :
       /\ Holds(on(on(on(EventRouter(DefaultDelimiter), t1, "h1", NoConfig),
                      t2, "h1", NoConfig), t3, "h1", NoConfig))
       /\ onRegistered = {t1, t2, t3}
  /\ returned = NothingReturned
  /\ merged = {}
  /\ opCount = 0
  /\ Idle
  /\ Untouched
  /\ NoClient

NextMatch == StartMatch \/ MatchIteration \/ MatchReturnsNull

SpecMatch == InitMatch /\ [][NextMatch]_vars

\* the loop runs on without waiting for anything
SpecMatchLive ==
  SpecMatch /\ WF_vars(MatchIteration) /\ WF_vars(MatchReturnsNull)

\* C35: matchSegmentsIterative terminates on every finite trie and channel:
\* the phase of a frame only increases while the frame is on the stack, no
\* frame sees more than three child attempts, and every started run returns,
\* with the result of the matcher.
C35_Terminates ==
  /\ [][\A i \in 1..Len(frames) :
          i <= Len(frames') => /\ frames'[i].phase >= frames[i].phase
                               /\ frames'[i].node = frames[i].node]_vars
  /\ [](\A i \in 1..Len(frames) :
          /\ attempts[i] <= 3
          /\ frames[i].phase <= 3)
  /\ [](matchRun.state = "done" =>
          matchRun.result =
            matchSegmentsIterative(root, <<>>, matchRun.segments))
  /\ (matchRun.state = "running") ~> (matchRun.state = "done")

\* a run that backtracked out of the static and the parametric child of a
\* and returned the wildcard child, after three attempts from the frame of a
C35_Witness ==
  /\ matchRun.state = "done"
  /\ matchRun.result.found
  /\ Len(frames) = 2
  /\ attempts[2] = 3
  /\ frames[2].phase = 3

\* ------------------------------------------------------------------------
\* Electron IPC adapters: subscriptions and streams
\* ------------------------------------------------------------------------
MaxClosures == 3

StreamChannels == {T_a_b, T_a_star}

StreamCallbacks == {"cb1", "cb2"}

PublishedChannels == {T_a_b, Ch_a_z, <<"b">>}

\* what an adapter step leaves unchanged
AdapterOnly ==
  /\ UNCHANGED <<routerVars, dispatchVars, returned, onRegistered, merged,
                 opCount, simpleLRU, lruOp, touched, regLog>>
  /\ UNCHANGED <<clientFields, requestVars, publishVars, matcherVars>>

\* a Map without the key
MapDelete(map, k) == [x \in DOMAIN map \ {k} |-> map[x]]

\* an unsubscribe closure that tells the main process on every call
ClosureCall_AlwaysSends(subs, channel, callback) ==
  IF channel \notin DOMAIN subs THEN [subs |-> subs, sent |-> <<>>]
  ELSE [subs |-> IF subs[channel] \ {callback} = {}
                 THEN MapDelete(subs, channel)
                 ELSE [subs EXCEPT ![channel] = @ \ {callback}],
        sent |-> <<[type |-> "unsubscribe", channel |-> channel]>>]

\* the closure returned by the renderer's subscribe: the subscriptions it
\* leaves and the IPC messages it sends
ClosureCall(subs, channel, callback) ==
  IF channel \notin DOMAIN subs THEN [subs |-> subs, sent |-> <<>>]
  ELSE IF subs[channel] \ {callback} = {}
  THEN [subs |-> MapDelete(subs, channel),
        sent |-> <<[type |-> "unsubscribe", channel |-> channel]>>]
  ELSE [subs |-> [subs EXCEPT ![channel] = @ \ {callback}], sent |-> <<>>]

\* the webContents whose renderer adapter is followed call by call
RendererIds == {1}

\* ElectronIPCRendererAdapter.subscribe(channel, callback) in the renderer of
\* webContents w
RendererSubscribe ==
  \E w \in RendererIds, channel \in StreamChannels,
     callback \in StreamCallbacks :
    /\ Len(closures) < MaxClosures
    /\ wcState[w] = "alive"
    /\ rendererSubs' =
         [rendererSubs EXCEPT
            ![w] = MapSet(@, channel,
                          (IF channel \in DOMAIN @ THEN @[channel] ELSE {})
                            \cup {callback})]
    /\ ipcQueue' = [ipcQueue EXCEPT
                      ![w] = Append(@, [type |-> "subscribe",
                                        channel |-> channel])]
    /\ closures' = Append(closures, [wc |-> w, channel |-> channel,
                                     callback |-> callback])
    /\ UNCHANGED <<mainSubs, wcState, streamed, ipcCall>>
    /\ AdapterOnly

\* a call of one of the closures returned so far
RendererUnsubscribe ==
  \E k \in 1..Len(closures) :
    /\ wcState[closures[k].wc] = "alive"
    /\ rendererSubs' =
         [rendererSubs EXCEPT
            ![closures[k].wc] =
              ClosureCall(@, closures[k].channel, closures[k].callback).subs]
    /\ ipcQueue' =
         [ipcQueue EXCEPT
            ![closures[k].wc] =
              @ \o ClosureCall(rendererSubs[closures[k].wc],
                               closures[k].channel,
                               closures[k].callback).sent]
    /\ UNCHANGED <<closures, mainSubs, wcState, streamed, ipcCall>>
    /\ AdapterOnly

\* the main adapter's subscribe handler
SubscribeHandler(subs, w, channel) ==
  MapSet(subs, w, (IF w \in DOMAIN subs THEN subs[w] ELSE {}) \cup {channel})

\* the main adapter's unsubscribe handler
UnsubscribeHandler(subs, w, channel) ==
  IF w \notin DOMAIN subs THEN subs
  ELSE IF subs[w] \ {channel} = {} THEN MapDelete(subs, w)
  ELSE [subs EXCEPT ![w] = @ \ {channel}]

\* the main process handles the oldest message a renderer has sent
MainReceives ==
  \E w \in WebContentsIds :
    /\ ipcQueue[w] # <<>>
    /\ mainSubs' =
         IF Head(ipcQueue[w]).type = "subscribe"
         THEN SubscribeHandler(mainSubs, w, Head(ipcQueue[w]).channel)
         ELSE UnsubscribeHandler(mainSubs, w, Head(ipcQueue[w]).channel)
    /\ ipcQueue' = [ipcQueue EXCEPT ![w] = Tail(@)]
    /\ UNCHANGED <<rendererSubs, closures, wcState, streamed, ipcCall>>
    /\ AdapterOnly

NextSubscribe == RendererSubscribe \/ RendererUnsubscribe \/ MainReceives

SpecSubscribe == Init /\ [][NextSubscribe]_vars

\* matchesChannel that accepts every channel
matchesChannel_Any(channel, subscribed) == TRUE

matchesChannel(channel, subscribed) ==
  \/ channel \in subscribed
  \/ \E pattern \in subscribed :
       /\ pattern # <<>>
       /\ pattern[Len(pattern)] = "*"
       /\ Len(channel) >= Len(pattern) - 1
       /\ SubSeq(channel, 1, Len(pattern) - 1) =
            SubSeq(pattern, 1, Len(pattern) - 1)

RECURSIVE PublishLoop(_, _, _, _, _)
\* the loop of publish over the entries of the subscriptions map (ids is its
\* keys still to visit): the ids a stream message was sent to, in order, and
\* the map it leaves
PublishLoop(ids, subs, channel, found, sent) ==
  IF ids = {} THEN [sent |-> sent, subs |-> subs]
  ELSE LET w == CHOOSE x \in ids : \A y \in ids : x <= y
       IN IF ~matchesChannel(channel, subs[w])
          THEN PublishLoop(ids \ {w}, subs, channel, found, sent)
          ELSE IF found[w] = "alive"
          THEN PublishLoop(ids \ {w}, subs, channel, found, Append(sent, w))
          ELSE PublishLoop(ids \ {w}, MapDelete(subs, w), channel, found,
                           sent)

\* ElectronIPCMainAdapter.publish(channel, data)
MainPublish ==
  \E channel \in PublishedChannels :
    /\ streamed' =
         [state |-> "published", channel |-> channel, before |-> mainSubs,
          resolved |-> wcState,
          sent |-> PublishLoop(DOMAIN mainSubs, mainSubs, channel, wcState,
                               <<>>).sent]
    /\ mainSubs' = PublishLoop(DOMAIN mainSubs, mainSubs, channel, wcState,
                               <<>>).subs
    /\ UNCHANGED <<rendererSubs, closures, ipcQueue, wcState, ipcCall>>
    /\ AdapterOnly

\* a webContents is destroyed and emits 'destroyed': the listener registered
\* when its entry was made deletes the entry.  Afterwards fromId finds a
\* destroyed webContents or none.
Destroyed ==
  \E w \in WebContentsIds, found \in {"destroyed", "unresolved"} :
    /\ wcState[w] = "alive"
    /\ wcState' = [wcState EXCEPT ![w] = found]
    /\ mainSubs' = MapDelete(mainSubs, w)
    /\ UNCHANGED <<rendererSubs, closures, ipcQueue, streamed, ipcCall>>
    /\ AdapterOnly

\* a subscribe or unsubscribe message of some webContents reaches the main
\* process, also one sent before the webContents was destroyed
MessageArrives ==
  \E w \in WebContentsIds, channel \in StreamChannels,
     type \in {"subscribe", "unsubscribe"} :
    /\ mainSubs' =
         IF type = "subscribe" THEN SubscribeHandler(mainSubs, w, channel)
         ELSE UnsubscribeHandler(mainSubs, w, channel)
    /\ UNCHANGED <<rendererSubs, closures, ipcQueue, wcState, streamed,
                   ipcCall>>
    /\ AdapterOnly

NextStream == MessageArrives \/ MainPublish \/ Destroyed

SpecStream == Init /\ [][NextStream]_vars

\* C39: for any sequence of subscribe calls and calls of the returned
\* closures on a renderer adapter, with the IPC messages handled in the order
\* sent, once all are handled the main adapter's channel set of that
\* webContents contains c exactly when the renderer holds at least one
\* callback for c; the main adapter never holds an empty channel set.
C39_MainMirrorsRenderer ==
  /\ \A w \in DOMAIN mainSubs : mainSubs[w] # {}
  /\ \A w \in WebContentsIds :
       ipcQueue[w] = <<>> =>
         \A c \in StreamChannels :
           (w \in DOMAIN mainSubs /\ c \in mainSubs[w])
             <=> (c \in DOMAIN rendererSubs[w] /\ rendererSubs[w][c] # {})

\* renderer 1 subscribed two callbacks to a:b and one was unsubscribed, all
\* messages are handled, and a:b is still subscribed on both sides
C39_Witness ==
  /\ Len(closures) = 2
  /\ closures[1] = [wc |-> 1, channel |-> T_a_b, callback |-> "cb1"]
  /\ closures[2] = [wc |-> 1, channel |-> T_a_b, callback |-> "cb2"]
  /\ rendererSubs[1] = [c \in {T_a_b} |-> {"cb2"}]
  /\ ipcQueue[1] = <<>>
  /\ mainSubs = [w \in {1} |-> {T_a_b}]

\* C40: publish(c, d) of the main adapter sends at most one stream message
\* per subscribed webContents, and only to webContents whose channel set
\* contains c or a pattern ending in "*" whose prefix c starts with; a
\* matching webContents that is destroyed or cannot be resolved receives
\* nothing and its entry is removed; an entry is also removed when its
\* webContents emits 'destroyed'.
C40_PublishTargets ==
  /\ [](streamed.state = "published" =>
          /\ \A i, j \in 1..Len(streamed.sent) :
               streamed.sent[i] = streamed.sent[j] => i = j
          /\ \A i \in 1..Len(streamed.sent) :
               /\ streamed.sent[i] \in DOMAIN streamed.before
               /\ streamed.resolved[streamed.sent[i]] = "alive"
               /\ \/ streamed.channel \in streamed.before[streamed.sent[i]]
                  \/ \E pattern \in streamed.before[streamed.sent[i]] :
                       /\ pattern[Len(pattern)] = "*"
                       /\ Len(streamed.channel) >= Len(pattern) - 1
                       /\ SubSeq(streamed.channel, 1, Len(pattern) - 1) =
                            SubSeq(pattern, 1, Len(pattern) - 1))
  /\ [][streamed' # streamed =>
          \A w \in DOMAIN mainSubs :
            IF /\ wcState[w] # "alive"
               /\ \/ streamed'.channel \in mainSubs[w]
                  \/ \E pattern \in mainSubs[w] :
                       /\ pattern[Len(pattern)] = "*"
                       /\ Len(streamed'.channel) >= Len(pattern) - 1
                       /\ SubSeq(streamed'.channel, 1, Len(pattern) - 1) =
                            SubSeq(pattern, 1, Len(pattern) - 1)
            THEN /\ w \notin DOMAIN mainSubs'
                 /\ \A i \in 1..Len(streamed'.sent) : streamed'.sent[i] # w
            ELSE w \in DOMAIN mainSubs' /\ mainSubs'[w] = mainSubs[w]]_vars
  /\ [][\A w \in WebContentsIds :
          (wcState[w] = "alive" /\ wcState'[w] # "alive") =>
            w \notin DOMAIN mainSubs']_vars

\* a publish of a:z reached webContents 1 through its pattern a:* and
\* removed the entry of webContents 2, which matched and was destroyed
C40_Witness ==
  /\ streamed.state = "published"
  /\ streamed.channel = Ch_a_z
  /\ streamed.sent = <<1>>
  /\ T_a_star \in streamed.before[1]
  /\ 2 \in DOMAIN streamed.before
  /\ streamed.resolved[2] # "alive"
  /\ 2 \notin DOMAIN mainSubs

\* ------------------------------------------------------------------------
\* Electron IPC adapters: request and response
\* ------------------------------------------------------------------------
\* the `code` an error thrown during dispatch may carry: the router's own
\* errors have none, an error thrown by a guard, middleware, handler or
\* schema may have one
ThrownCodes(message) ==
  IF message \in {"No handler found", "No controller found", "Guard rejected",
                  "Validation Error"}
  THEN {None}
  ELSE {None, "E_CUSTOM"}

\* the catch block answering with the error's code as it is
MainEnvelope_OwnCodeOnly(op, settledAs, code) ==
  IF settledAs.state = "resolved"
  THEN [data |-> IF op = "emit" THEN None ELSE settledAs.value,
        error |-> <<>>]
  ELSE [data |-> None,
        error |-> <<[message |-> settledAs.error, code |-> code]>>]

\* what the main adapter's request and emit handlers return for an execute
\* or emit that settled as settledAs, code being the code of the error
MainEnvelope(op, settledAs, code) ==
  IF settledAs.state = "resolved"
  THEN [data |-> IF op = "emit" THEN None ELSE settledAs.value,
        error |-> <<>>]
  ELSE [data |-> None,
        error |-> <<[message |-> settledAs.error,
                     code |-> IF code # None THEN code ELSE "ROUTER_ERROR"]>>]

\* the renderer adapter's request after `await ipcRenderer.invoke(...)` gave
\* the envelope
RendererResult(envelope, channel) ==
  IF envelope.error # <<>>
  THEN [state |-> "rejected", data |-> None,
        error |-> [message |-> envelope.error[1].message,
                   code |-> envelope.error[1].code,
                   channel |-> channel, traceId |-> None]]
  ELSE [state |-> "resolved", data |-> envelope.data, error |-> NoError]

\* the handler of the main adapter returns, the router's execute or emit
\* having settled
MainReplies ==
  \E code \in ThrownCodes(outcome.error) :
    /\ ipcCall.stage = "none"
    /\ outcome.state \in {"resolved", "rejected"}
    /\ ipcCall' = [ipcCall EXCEPT
                     !.stage = "replied",
                     !.invoke = "fulfilled",
                     !.thrownCode = IF outcome.state = "rejected" THEN code
                                    ELSE None,
                     !.envelope = MainEnvelope(call.op, outcome,
                                               IF outcome.state = "rejected"
                                               THEN code ELSE None)]
    /\ UNCHANGED <<rendererSubs, closures, ipcQueue, mainSubs, wcState,
                   streamed>>
    /\ AdapterOnly

\* the renderer adapter's request settles
RendererSettles ==
  /\ ipcCall.stage = "replied"
  /\ ipcCall' = [ipcCall EXCEPT
                   !.stage = "settled",
                   !.settled = RendererResult(ipcCall.envelope, call.channel)]
  /\ UNCHANGED <<rendererSubs, closures, ipcQueue, mainSubs, wcState,
                 streamed>>
  /\ AdapterOnly

NextIpc == NextDispatch \/ MainReplies \/ RendererSettles

SpecIpc == InitDispatch /\ [][NextIpc]_vars

====
